---------------------------- MODULE Spec2Model ----------------------------
(***************************************************************************)
(* Lexicon-enhanced lemmatization: the greedy decoding loop of the seq2seq *)
(* model, the beam engine at width 1, the batching layer that sorts a      *)
(* batch by length and restores the caller's order, and the vocabulary     *)
(* mapper.  Each component has its own specification over the shared       *)
(* variables; the variables of the other components stay idle.             *)
(***************************************************************************)
EXTENDS Integers, Sequences, FiniteSets, TLC

VARIABLES
    pc,            \* position of the component under analysis
    \* ---- Seq2SeqModel.predict (greedy decoding) ----
    max_dec_len,   \* self.max_dec_len, a configuration scalar
    batch_size,    \* enc_inputs.size(0)
    done,          \* done[i]: example i has predicted EOS
    total_done,    \* number of examples marked done
    max_len,       \* the shared step counter
    output_seqs,   \* per-example accumulator of emitted symbol ids
    tape,          \* history: the arg-max symbols of each example, up to its first EOS
    result,        \* what predict returned
    \* ---- beam engine (one beam per example) ----
    beam,          \* beam[i]: the surviving hypotheses of example i
    beam_done,     \* beam_done[i]: the best hypothesis of example i has emitted EOS
    beam_steps,    \* step counter of the beam engine
    beam_result,   \* what the beam engine returned
    \* ---- Vocab (lemma/vocab.py) ----
    data,          \* self.data: the symbols the vocabulary is built from
    id2unit,       \* self._id2unit: list of symbols, the symbol of id k at k + 1
    unit2id,       \* self._unit2id: dict from symbol to id
    map_in,        \* a symbol sequence handed to map
    map_out,       \* the ids map returned
    unmap_out,     \* the symbols unmap returned for map_out
    \* ---- process_batch and TrainerVb.predict ----
    raw_batch,     \* List[AdHocInput] handed to process_batch
    src,           \* AdHocModelInput.src: padded rows, sorted by length
    src_mask,      \* AdHocModelInput.src_mask
    lem,           \* AdHocModelInput.lem
    lem_mask,      \* AdHocModelInput.lem_mask
    orig_idx,      \* AdHocModelInput.orig_idx: original index of each row
    model_preds,   \* what model.predict returned for the rows
    pred_tokens,   \* what TrainerVb.predict returned
    \* ---- preprocessing of one token (data.py) ----
    element,       \* the analysed token: token, part_of_speech, features, candidates
    config,        \* the loader's switches: eos_after, pos, morph, use_vb_lemmas
    processed,     \* the encoded inputs built for the token
    adhoc_processed, \* the encoded inputs prepare_batch built for the token
    \* ---- Seq2SeqModel.forward / predict up to the encoders ----
    training,      \* nn.Module.training: the mode set by model.train() / model.eval()
    is_lexicon,    \* self.is_lexicon
    lexicon_dropout, \* self.lexicon_dropout, in percent
    lem_hide,      \* the outcome of the dropout draw
    lem_lens,      \* the true lengths handed to the lexicon encoder
    dec_lem_mask,  \* the lexicon mask handed to the decoder's attention
    \* ---- SoftDotAttention.forward (one row of the batch) ----
    attn,          \* the attention logits, one per context position
    attn_mask,     \* the padding mask of the row
    attn_weights,  \* the softmax output: numerators and their common denominator
    \* ---- Seq2SeqModel.__init__ ----
    args,          \* the configuration dictionary
    model,         \* the fields of the constructed model, <<>> when there is none
    \* ---- postprocess (trainer.py) ----
    words,         \* the word forms
    lemma_preds,   \* preds: the predicted lemmas, one string per word
    edits,         \* the predicted edit ids
    edit_on,       \* args.get('edit', False)
    edited,        \* the list edited of Trainer.postprocess
    final,         \* what postprocess returned
    \* ---- the dictionary lemmatizer (trainer.py) ----
    composite_dict, \* self.composite_dict: (word, pos) -> lemma
    word_dict,     \* self.word_dict: word -> lemma
    pairs,         \* the (word, pos) pairs handed to ensemble / predict_dict
    other_preds,   \* the model predictions handed to ensemble
    lemmas,        \* what ensemble / predict_dict returned
    skip,          \* what skip_seq2seq returned
    \* ---- Lexicon (common/lexicon.py) ----
    lex_data,      \* the data handed to init_lexicon
    use_pos,       \* self.use_pos
    use_word,      \* self.use_word
    pos_lexicon,   \* self.pos_lexicon: (word, pos) -> concatenated lemmas
    word_lexicon,  \* self.word_lexicon: word -> concatenated lemmas
    lex_query,     \* the (word, pos) handed to lemmatize
    lex_out,       \* what lemmatize returned
    \* ---- the training loop (lemmatizer_vb.py, lemmatizer_cmb.py: train) ----
    train_args,    \* args: num_epoch, min_epochs, early_stop
    epoch,         \* the loop variable, 0 before the first epoch
    dev_score,     \* the dev score of the epoch
    dev_score_history, \* the dev scores of the epochs completed before
    devs_without_improvements, \* the early-stopping counter
    saved_epoch,   \* the epoch whose model trainer.save wrote last, 0 for none
    best_dev_preds, \* the epoch whose dev predictions best_dev_preds holds
    \* ---- edit classes of the training data (edit.py, data.py 145) ----
    gold_word,     \* d[0]: the word form
    gold_lemma,    \* d[2]: the gold lemma
    edit_type,     \* what get_edit_type returned
    edit_out,      \* what edit_word returned for the class of edit_type
    \* ---- DataLoaderVb and evaluate (data.py 236-595, lemmatizer_vb.py) ----
    flat_analysis, \* the analysed tokens of the input, in input order
    loader_batch_size, \* self.batch_size
    evaluation,    \* self.eval; self.shuffled is its negation
    loader_data,   \* self.data: the list of batches
    loader_key,    \* the key of the last __getitem__ call, 0 before it
    loader_batch,  \* what the last __getitem__ call returned or raised
    eval_i,        \* evaluate: the number of batches predicted
    eval_preds     \* evaluate: preds

decodeVars == <<max_dec_len, batch_size, done, total_done, max_len, output_seqs,
                tape, result>>
beamVars == <<beam, beam_done, beam_steps, beam_result>>
vocabVars == <<data, id2unit, unit2id, map_in, map_out, unmap_out>>
batchVars == <<raw_batch, src, src_mask, lem, lem_mask, orig_idx, model_preds,
               pred_tokens>>
prepVars == <<element, config, processed, adhoc_processed>>
\* The variables of the components that follow the batching layer
fwdVars == <<training, is_lexicon, lexicon_dropout, lem_hide, lem_lens,
             dec_lem_mask>>
attnVars == <<attn, attn_mask, attn_weights>>
ctorVars == <<args, model>>
postVars == <<words, lemma_preds, edits, edit_on, edited, final>>
dictVars == <<composite_dict, word_dict, pairs, other_preds, lemmas,
              skip>>
lexVars == <<lex_data, use_pos, use_word, pos_lexicon, word_lexicon, lex_query,
             lex_out>>
\* The variables of the lexicon, the training loop and the data loader
trainVars == <<train_args, epoch, dev_score, dev_score_history,
               devs_without_improvements, saved_epoch, best_dev_preds>>
editVars == <<gold_word, gold_lemma, edit_type, edit_out>>
loaderVars == <<flat_analysis, loader_batch_size, evaluation, loader_data,
                loader_key, loader_batch, eval_i, eval_preds>>
moreVars == <<lexVars, trainVars, editVars, loaderVars>>
restVars == <<prepVars, fwdVars, attnVars, ctorVars, postVars, dictVars,
              moreVars>>
vars == <<pc, decodeVars, beamVars, vocabVars, batchVars, restVars>>

\* The components that follow the batching layer, before any call
IdlePrep ==
    /\ element = <<>>
    /\ config = <<>>
    /\ processed = <<>>
    /\ adhoc_processed = <<>>
IdleForward ==
    /\ training = TRUE
    /\ is_lexicon = FALSE
    /\ lexicon_dropout = 0
    /\ lem_hide = FALSE
    /\ lem_lens = <<>>
    /\ dec_lem_mask = <<>>
IdleAttn ==
    /\ attn = <<>>
    /\ attn_mask = <<>>
    /\ attn_weights = <<>>
IdleCtor ==
    /\ args = <<>>
    /\ model = <<>>
IdlePost ==
    /\ words = <<>>
    /\ lemma_preds = <<>>
    /\ edits = <<>>
    /\ edit_on = FALSE
    /\ edited = <<>>
    /\ final = <<>>
IdleDict ==
    /\ composite_dict = <<>>
    /\ word_dict = <<>>
    /\ pairs = <<>>
    /\ other_preds = <<>>
    /\ lemmas = <<>>
    /\ skip = <<>>
IdleLex ==
    /\ lex_data = <<>>
    /\ use_pos = TRUE
    /\ use_word = TRUE
    /\ pos_lexicon = <<>>
    /\ word_lexicon = <<>>
    /\ lex_query = <<>>
    /\ lex_out = <<>>
IdleTrain ==
    /\ train_args = <<>>
    /\ epoch = 0
    /\ dev_score = 0
    /\ dev_score_history = <<>>
    /\ devs_without_improvements = 0
    /\ saved_epoch = 0
    /\ best_dev_preds = 0
IdleEdit ==
    /\ gold_word = <<>>
    /\ gold_lemma = <<>>
    /\ edit_type = ""
    /\ edit_out = <<>>
\* No batch asked for yet
NoBatch == [rows |-> <<>>, orig_idx |-> <<>>]
IdleLoader ==
    /\ flat_analysis = <<>>
    /\ loader_batch_size = 0
    /\ evaluation = FALSE
    /\ loader_data = <<>>
    /\ loader_key = 0
    /\ loader_batch = NoBatch
    /\ eval_i = 0
    /\ eval_preds = <<>>
IdleMore ==
    /\ IdleLex
    /\ IdleTrain
    /\ IdleEdit
    /\ IdleLoader
IdleRest ==
    /\ IdleMore
    /\ IdlePrep
    /\ IdleForward
    /\ IdleAttn
    /\ IdleCtor
    /\ IdlePost
    /\ IdleDict

-----------------------------------------------------------------------------
\* Bounds of the model
MaxBatch == 2
MaxDecLen == 3
MaxData == 4
MaxMapLen == 2

\* Control symbols and their ids (seq2seq_constant.py)
PAD == "<PAD>"
PAD_ID == 0
UNK == "<UNK>"
UNK_ID == 1
SOS == "<SOS>"
SOS_ID == 2
EOS == "<EOS>"
EOS_ID == 3
FILL == "<FILL>"
FILL_ID == 4
VOCAB_PREFIX == <<PAD, UNK, SOS, EOS, FILL>>

\* The decoder's output vocabulary in the model: the ids of the five control
\* symbols and of two data symbols.
DataIds == {Len(VOCAB_PREFIX), Len(VOCAB_PREFIX) + 1}
VocabIds == (0 .. (Len(VOCAB_PREFIX) - 1)) \cup DataIds

-----------------------------------------------------------------------------
\* Decoder output.  One row of log-probabilities per example and step; the
\* decoder is a learned function, so the rows are inputs of the model.  A row
\* is peaked on a set H of symbols (a tie when H has two elements).
Row(H, top) == [id \in VocabIds |-> IF id \in H THEN top ELSE top - 1]
PeakSets == {{EOS_ID}, {5}, {6}, {EOS_ID, 5}, {5, 6}}
LogProbRows == {Row(H, -1) : H \in PeakSets}

RowMax(row) == CHOOSE m \in {row[id] : id \in VocabIds} :
                   \A id \in VocabIds : row[id] <= m

\* log_probs.squeeze(1).max(1): the index of the first maximal value
ArgmaxLast(row) ==
    LET m == RowMax(row)
    IN  CHOOSE id \in VocabIds :
            row[id] = m /\ \A j \in VocabIds : row[j] = m => j <= id
Argmax(row) ==
    LET m == RowMax(row)
    IN  CHOOSE id \in VocabIds :
            row[id] = m /\ \A j \in VocabIds : row[j] = m => id <= j

-----------------------------------------------------------------------------
\* Helpers on sequences
Range(s) == {s[k] : k \in 1 .. Len(s)}

RECURSIVE SumSeq(_)
SumSeq(s) == IF s = <<>> THEN 0 ELSE Head(s) + SumSeq(Tail(s))

\* The symbols of s before its first EOS (all of s when it holds none)
RECURSIVE BeforeEOS(_)
BeforeEOS(s) ==
    IF s = <<>> \/ Head(s) = EOS_ID THEN <<>>
    ELSE <<Head(s)>> \o BeforeEOS(Tail(s))

-----------------------------------------------------------------------------
\* Vocab.build_vocab (lemma/vocab.py 7-11) and the mapper built on it

\* Symbols that occur in training data: characters, POS tags, feature tags
DataSymbols == {"a", "b", "POS=V"}
\* A symbol that never occurs in the data
UnseenSymbol == "z"

SeqsUpTo(S, n) == UNION {[1 .. k -> S] : k \in 0 .. n}

\* Counter(self.data): the count of a symbol, and the keys in the order of
\* their first occurrence (a dict keeps insertion order)
Count(d, w) == Cardinality({k \in 1 .. Len(d) : d[k] = w})

RECURSIVE CounterKeys(_)
CounterKeys(d) ==
    IF d = <<>> THEN <<>>
    ELSE LET init == SubSeq(d, 1, Len(d) - 1)
             last == d[Len(d)]
         IN  IF last \in Range(init) THEN CounterKeys(init)
             ELSE Append(CounterKeys(init), last)

\* sorted(keys, key=lambda k: counter[k], reverse=True): a stable sort, so
\* keys of equal count keep their order
RECURSIVE InsertAscending(_, _, _)
InsertAscending(sorted, w, d) ==
    IF sorted = <<>> THEN <<w>>
    ELSE IF Count(d, Head(sorted)) <= Count(d, w)
         THEN <<Head(sorted)>> \o InsertAscending(Tail(sorted), w, d)
         ELSE <<w>> \o sorted
RECURSIVE InsertByCount(_, _, _)
InsertByCount(sorted, w, d) ==
    IF sorted = <<>> THEN <<w>>
    ELSE IF Count(d, Head(sorted)) >= Count(d, w)
         THEN <<Head(sorted)>> \o InsertByCount(Tail(sorted), w, d)
         ELSE <<w>> \o sorted

RECURSIVE SortedByCount(_, _)
SortedByCount(keys, d) ==
    IF keys = <<>> THEN <<>>
    ELSE InsertByCount(SortedByCount(SubSeq(keys, 1, Len(keys) - 1), d),
                       keys[Len(keys)], d)

\* self._id2unit = VOCAB_PREFIX + sorted(counter keys by count, descending)
BuildId2Unit(d) == VOCAB_PREFIX \o SortedByCount(CounterKeys(d), d)

\* self._unit2id = {w: i for i, w in enumerate(self._id2unit)}: a later
\* occurrence of a symbol overwrites an earlier one
BuildUnit2IdFromOne(units) ==
    [w \in Range(units) |->
        CHOOSE i \in 1 .. Len(units) :
            units[i] = w /\ \A j \in (i + 1) .. Len(units) : units[j] # w]
BuildUnit2Id(units) ==
    [w \in Range(units) |->
        (CHOOSE i \in 1 .. Len(units) :
            units[i] = w /\ \A j \in (i + 1) .. Len(units) : units[j] # w) - 1]

\* The mapper: an unknown symbol maps to the id of UNK; unmap reads the list
Unit2IdOf(u2i, w) == IF w \in DOMAIN u2i THEN u2i[w] ELSE u2i[UNK]
Map(u2i, units) == [k \in 1 .. Len(units) |-> Unit2IdOf(u2i, units[k])]
Unmap(i2u, ids) == [k \in 1 .. Len(ids) |-> i2u[ids[k] + 1]]

BuildVocab ==
    /\ pc = "new"
    /\ id2unit' = BuildId2Unit(data)
    /\ unit2id' = BuildUnit2Id(id2unit')
    /\ pc' = "built"
    /\ UNCHANGED <<data, map_in, map_out, unmap_out>>

\* vocab.map(src_input) in prepare_batch / _preprocess
VocabMap(units) ==
    /\ pc = "built"
    /\ map_in' = units
    /\ map_out' = Map(unit2id, units)
    /\ pc' = "mapped"
    /\ UNCHANGED <<data, id2unit, unit2id, unmap_out>>

\* self.vocab.unmap(ids) in lemmatize / predict
VocabUnmap ==
    /\ pc = "mapped"
    /\ unmap_out' = Unmap(id2unit, map_out)
    /\ pc' = "unmapped"
    /\ UNCHANGED <<data, id2unit, unit2id, map_in, map_out>>

IdleVocab ==
    /\ data = <<>>
    /\ id2unit = <<>>
    /\ unit2id = <<>>
    /\ map_in = <<>>
    /\ map_out = <<>>
    /\ unmap_out = <<>>

-----------------------------------------------------------------------------
\* process_batch (adhoc.py 167-185) and TrainerVb.predict (trainer.py 385-404)

\* Encoded inputs of one token, as prepare_batch builds them: the source is
\* SOS, the characters, EOS; the lexicon input is SOS, the candidates, EOS.
Words == {<<5>>, <<6>>, <<5, 6>>, <<6, 5, 5>>}
LemmaCandidates == {<<>>, <<5>>}
AdHocInputs ==
    {[src_input |-> <<SOS_ID>> \o w \o <<EOS_ID>>,
      lemma_input |-> <<SOS_ID>> \o c \o <<EOS_ID>>] :
        w \in Words, c \in LemmaCandidates}

\* Sequences of ids the model may return for a row
PredOuts == {<<>>, <<5>>, <<6, 5>>, <<5, EOS_ID, 6>>}

\* The vocabulary of the loaded model
ModelId2Unit == BuildId2Unit(<<"a", "b", "a">>)

Perms(n) == {p \in [1 .. n -> 1 .. n] : \A j, k \in 1 .. n : p[j] = p[k] => j = k}

\* sort_all(batch, lens): the fields reordered by descending length, and the
\* original index of each row.  Rows of equal length may come in any order.
SortPerms(lens) ==
    {p \in Perms(Len(lens)) :
        \A j, k \in 1 .. Len(lens) : j < k => lens[p[j]] >= lens[p[k]]}

\* unsort(sorted_list, oidx): the element of row k goes back to oidx[k]
Unsort(sorted_list, oidx) ==
    [i \in 1 .. Len(sorted_list) |->
        sorted_list[CHOOSE k \in 1 .. Len(oidx) : oidx[k] = i - 1]]

\* get_long_tensor(rows, batch_size): rows padded with PAD_ID to the longest
MaxOf(S) == CHOOSE m \in S : \A x \in S : x <= m
PadTo(row, n) == row \o [j \in 1 .. (n - Len(row)) |-> PAD_ID]
GetLongTensor(rows) ==
    LET n == MaxOf({Len(rows[k]) : k \in 1 .. Len(rows)})
    IN  [k \in 1 .. Len(rows) |-> PadTo(rows[k], n)]

\* torch.eq(t, constant.PAD_ID)
EqPad(t) == [k \in 1 .. Len(t) |-> [j \in 1 .. Len(t[k]) |-> t[k][j] = PAD_ID]]

\* prune_decoded_seqs: a decoded sequence is cut at its first EOS
RECURSIVE PruneDecoded(_)
PruneDecoded(units) ==
    IF units = <<>> \/ Head(units) = EOS THEN <<>>
    ELSE <<Head(units)>> \o PruneDecoded(Tail(units))

\* lens = [len(x) for x in batch[0]]
BatchLens(batch0) == [k \in 1 .. Len(batch0) |-> Len(batch0[k])]

\* process_batch.  zip(*raw_batch) of an empty list is the empty list, so
\* "assert len(batch) == 2" fails on an empty batch.
ProcessBatch ==
    /\ pc = "raw"
    /\ IF Len(raw_batch) = 0
       THEN /\ pc' = "error"
            /\ UNCHANGED <<src, src_mask, lem, lem_mask, orig_idx>>
       ELSE \E p \in SortPerms(BatchLens(
                         [k \in 1 .. Len(raw_batch) |-> raw_batch[k].src_input])) :
               /\ src' = GetLongTensor(
                           [k \in 1 .. Len(p) |-> raw_batch[p[k]].src_input])
               /\ src_mask' = EqPad(src')
               /\ lem' = GetLongTensor(
                           [k \in 1 .. Len(p) |-> raw_batch[p[k]].lemma_input])
               /\ lem_mask' = EqPad(lem')
               /\ orig_idx' = [k \in 1 .. Len(p) |-> p[k] - 1]
               /\ pc' = "batched"
    /\ UNCHANGED <<raw_batch, model_preds, pred_tokens>>

\* The tokens TrainerVb.predict returns for the model's predictions:
\* unmap, prune_decoded_seqs, join (a token is kept as its characters),
\* and unsort with batch.orig_idx.
PredTokensNoUnsort(preds, oidx) ==
    [k \in 1 .. Len(preds) |-> PruneDecoded(Unmap(ModelId2Unit, preds[k]))]
PredTokens(preds, oidx) ==
    Unsort([k \in 1 .. Len(preds) |->
               PruneDecoded(Unmap(ModelId2Unit, preds[k]))], oidx)

TrainerVbPredict ==
    /\ pc = "batched"
    /\ \E preds \in [1 .. Len(src) -> PredOuts] :
          /\ model_preds' = preds
          /\ pred_tokens' = PredTokens(preds, orig_idx)
    /\ pc' = "predicted"
    /\ UNCHANGED <<raw_batch, src, src_mask, lem, lem_mask, orig_idx>>

IdleBatch ==
    /\ raw_batch = <<>>
    /\ src = <<>>
    /\ src_mask = <<>>
    /\ lem = <<>>
    /\ lem_mask = <<>>
    /\ orig_idx = <<>>
    /\ model_preds = <<>>
    /\ pred_tokens = <<>>

-----------------------------------------------------------------------------
\* Seq2SeqModel.predict, the greedy loop (seq2seq_model.py 426-450)

\* while total_done < batch_size and max_len < self.max_dec_len
LoopCondOffByOne(td, bs, ml, mdl) == td < bs /\ ml <= mdl
LoopCondAnyDone(td, bs, ml, mdl) == td = 0 /\ bs > 0 /\ ml < mdl
LoopCond(td, bs, ml, mdl) == td < bs /\ ml < mdl

\* The body of "for i in range(batch_size)" for one example: its new done
\* flag, its new accumulator and its increment of total_done.
StepExampleKeepsEOS(d, out, token) ==
    IF d THEN [done |-> TRUE, out |-> out, inc |-> 0]
    ELSE IF token = EOS_ID
         THEN [done |-> TRUE, out |-> Append(out, token), inc |-> 1]
         ELSE [done |-> FALSE, out |-> Append(out, token), inc |-> 0]
StepExampleNoFreeze(d, out, token) ==
    IF token = EOS_ID
    THEN [done |-> TRUE, out |-> out, inc |-> IF d THEN 0 ELSE 1]
    ELSE [done |-> d, out |-> Append(out, token), inc |-> 0]
StepExample(d, out, token) ==
    IF d THEN [done |-> TRUE, out |-> out, inc |-> 0]
    ELSE IF token = EOS_ID
         THEN [done |-> TRUE, out |-> out, inc |-> 1]
         ELSE [done |-> FALSE, out |-> Append(out, token), inc |-> 0]

\* done, total_done, max_len, output_seqs at the loop's entry (430-433).
\* The decoder's input and recurrent state (dec_inputs, hn, cn) live inside
\* the decoder, whose rows are inputs of the model.
PredictBegin(n) ==
    /\ pc = "idle"
    /\ batch_size' = n
    /\ done' = [i \in 1 .. n |-> FALSE]
    /\ total_done' = 0
    /\ max_len' = 0
    /\ output_seqs' = [i \in 1 .. n |-> <<>>]
    /\ tape' = [i \in 1 .. n |-> <<>>]
    /\ pc' = "loop"
    /\ UNCHANGED <<max_dec_len, result>>

GreedyStepNoCount(lp) ==
    LET preds == [i \in 1 .. batch_size |-> Argmax(lp[i])]
        st == [i \in 1 .. batch_size |->
                  StepExample(done[i], output_seqs[i], preds[i])]
    IN  /\ max_len' = max_len
        /\ done' = [i \in 1 .. batch_size |-> st[i].done]
        /\ output_seqs' = [i \in 1 .. batch_size |-> st[i].out]
        /\ total_done' = total_done
                           + SumSeq([i \in 1 .. batch_size |-> st[i].inc])
        /\ tape' = [i \in 1 .. batch_size |->
                       IF EOS_ID \in Range(tape[i]) THEN tape[i]
                       ELSE Append(tape[i], preds[i])]
        /\ UNCHANGED <<max_dec_len, batch_size, result>>
\* One iteration of the loop (436-448) on the decoder's rows lp.
GreedyStep(lp) ==
    LET preds == [i \in 1 .. batch_size |-> Argmax(lp[i])]
        st == [i \in 1 .. batch_size |->
                  StepExample(done[i], output_seqs[i], preds[i])]
    IN  /\ max_len' = max_len + 1
        /\ done' = [i \in 1 .. batch_size |-> st[i].done]
        /\ output_seqs' = [i \in 1 .. batch_size |-> st[i].out]
        /\ total_done' = total_done
                           + SumSeq([i \in 1 .. batch_size |-> st[i].inc])
        /\ tape' = [i \in 1 .. batch_size |->
                       IF EOS_ID \in Range(tape[i]) THEN tape[i]
                       ELSE Append(tape[i], preds[i])]
        /\ UNCHANGED <<max_dec_len, batch_size, result>>

DecodeStep ==
    /\ pc = "loop"
    /\ LoopCond(total_done, batch_size, max_len, max_dec_len)
    /\ \E lp \in [1 .. batch_size -> LogProbRows] : GreedyStep(lp)
    /\ UNCHANGED <<pc, beamVars, vocabVars, batchVars, restVars>>

\* return output_seqs (450)
PredictReturn ==
    /\ pc = "loop"
    /\ ~LoopCond(total_done, batch_size, max_len, max_dec_len)
    /\ result' = output_seqs
    /\ pc' = "returned"
    /\ UNCHANGED <<max_dec_len, batch_size, done, total_done, max_len,
                   output_seqs, tape, beamVars, vocabVars, batchVars, restVars>>

\* predict on a batch holding one example alone, fed the predictions t of
\* that example: the same loop condition and the same loop body.
RECURSIVE SoloLoop(_, _, _, _, _)
SoloLoop(t, d, td, ml, out) ==
    IF LoopCond(td, 1, ml, max_dec_len)
    THEN LET st == StepExample(d, out, t[ml + 1])
         IN  SoloLoop(t, st.done, td + st.inc, ml + 1, st.out)
    ELSE out
SoloPredict(t) == SoloLoop(t, FALSE, 0, 0, <<>>)

IdleDecode ==
    /\ batch_size = 0
    /\ done = <<>>
    /\ total_done = 0
    /\ max_len = 0
    /\ output_seqs = <<>>
    /\ tape = <<>>
    /\ result = <<>>
IdleBeam ==
    /\ beam = <<>>
    /\ beam_done = <<>>
    /\ beam_steps = 0
    /\ beam_result = <<>>

InitDecode ==
    /\ pc = "idle"
    /\ max_dec_len \in 0 .. MaxDecLen
    /\ IdleDecode
    /\ IdleBeam
    /\ IdleVocab
    /\ IdleBatch
    /\ IdleRest
NextDecode ==
    \/ \E n \in 0 .. MaxBatch :
          PredictBegin(n) /\ UNCHANGED <<beamVars, vocabVars, batchVars, restVars>>
    \/ DecodeStep
    \/ PredictReturn
SpecDecode == InitDecode /\ [][NextDecode]_vars

\* The loop runs on its own thread of control and is never suspended: a step
\* that stays possible is taken, and so is the return.  A decoder row always
\* exists and a step always advances max_len, so DecodeStep is enabled
\* exactly when the loop condition holds; LoopRunning is
\* ENABLED <<DecodeStep>>_vars written out, and the second conjunct below is
\* WF_vars(DecodeStep).
LoopRunning ==
    /\ pc = "loop"
    /\ LoopCond(total_done, batch_size, max_len, max_dec_len)
SpecDecodeFair ==
    /\ SpecDecode
    /\ ([]<>~LoopRunning \/ []<><<DecodeStep>>_vars)
    /\ WF_vars(PredictReturn)


-----------------------------------------------------------------------------
\* The beam-search engine, one beam of width K per example.  The prediction
\* entry point (TrainerVb.predict) hands beam_size to the model's predict.
\* A hypothesis is its emitted-symbol history, starting with SOS, and its
\* cumulative log-probability.

\* beam_size: int = 1, the default of TrainerVb.predict
DefaultBeamSize == 1

InitHyp == [seq |-> <<SOS_ID>>, score |-> 0]
Ended(h) == h.seq[Len(h.seq)] = EOS_ID

\* Combined score of every (hypothesis, symbol) pair; rows[k] is the
\* decoder's row for hypothesis k.  A hypothesis that has ended is carried
\* over as it is (symbol PAD_ID stands for "no extension").
Candidates(hyps, rows) ==
    {[h |-> k, sym |-> sy, score |-> hyps[k].score + rows[k][sy]] :
        k \in {j \in 1 .. Len(hyps) : ~Ended(hyps[j])}, sy \in VocabIds}
    \cup {[h |-> k, sym |-> PAD_ID, score |-> hyps[k].score] :
        k \in {j \in 1 .. Len(hyps) : Ended(hyps[j])}}

\* Higher score first; ties by (hypothesis index, symbol id)
Better(c, d) ==
    \/ c.score > d.score
    \/ c.score = d.score /\ c.h < d.h
    \/ c.score = d.score /\ c.h = d.h /\ c.sym < d.sym

RECURSIVE TopK(_, _)
TopK(S, k) ==
    IF k = 0 \/ S = {} THEN <<>>
    ELSE LET best == CHOOSE c \in S : \A d \in S \ {c} : Better(c, d)
         IN  <<best>> \o TopK(S \ {best}, k - 1)

Extend(hyps, c) ==
    IF Ended(hyps[c.h]) THEN hyps[c.h]
    ELSE [seq |-> Append(hyps[c.h].seq, c.sym), score |-> c.score]

\* One step of one example's beam: the top K candidates, best first
BeamStepExample(hyps, rows, K) ==
    LET top == TopK(Candidates(hyps, rows), K)
    IN  [j \in 1 .. Len(top) |-> Extend(hyps, top[j])]

\* The returned sequence of a beam: its best hypothesis without the leading
\* SOS and without the trailing EOS
StripControl(h) ==
    LET body == SubSeq(h.seq, 2, Len(h.seq))
    IN  IF Ended(h) THEN SubSeq(body, 1, Len(body) - 1) ELSE body

BeamLoopCond ==
    /\ \E i \in 1 .. batch_size : ~beam_done[i]
    /\ beam_steps < max_dec_len

BeamBegin(n) ==
    /\ beam' = [i \in 1 .. n |-> <<InitHyp>>]
    /\ beam_done' = [i \in 1 .. n |-> FALSE]
    /\ beam_steps' = 0
    /\ UNCHANGED beam_result

BeamStep(lp, K) ==
    /\ beam' = [i \in 1 .. batch_size |->
                   IF beam_done[i] THEN beam[i]
                   ELSE BeamStepExample(
                            beam[i], [k \in 1 .. Len(beam[i]) |-> lp[i]], K)]
    /\ beam_done' = [i \in 1 .. batch_size |-> Ended(beam'[i][1])]
    /\ beam_steps' = beam_steps + 1
    /\ UNCHANGED beam_result

\* Greedy decoding and the beam engine at width 1, run on the same inputs
\* and the same model: both are fed the same decoder rows at every step.
PredictBothBegin(n) ==
    PredictBegin(n) /\ BeamBegin(n) /\ UNCHANGED <<vocabVars, batchVars, restVars>>

PredictBothStep ==
    /\ pc = "loop"
    /\ ~(/\ ~LoopCond(total_done, batch_size, max_len, max_dec_len)
          /\ ~BeamLoopCond)
    /\ \E lp \in [1 .. batch_size -> LogProbRows] :
          /\ IF LoopCond(total_done, batch_size, max_len, max_dec_len)
             THEN GreedyStep(lp) ELSE UNCHANGED decodeVars
          /\ IF BeamLoopCond
             THEN BeamStep(lp, DefaultBeamSize) ELSE UNCHANGED beamVars
    /\ UNCHANGED <<pc, vocabVars, batchVars, restVars>>

PredictBothReturn ==
    /\ pc = "loop"
    /\ ~LoopCond(total_done, batch_size, max_len, max_dec_len)
    /\ ~BeamLoopCond
    /\ result' = output_seqs
    /\ beam_result' = [i \in 1 .. batch_size |-> StripControl(beam[i][1])]
    /\ pc' = "returned"
    /\ UNCHANGED <<max_dec_len, batch_size, done, total_done, max_len,
                   output_seqs, tape, beam, beam_done, beam_steps, vocabVars,
                   batchVars, restVars>>

NextBeam ==
    \/ \E n \in 0 .. MaxBatch : PredictBothBegin(n)
    \/ PredictBothStep
    \/ PredictBothReturn
SpecBeam == InitDecode /\ [][NextBeam]_vars

-----------------------------------------------------------------------------
\* Properties of greedy decoding

Examples == 1 .. batch_size
AllDone == \A i \in Examples : done[i]

\* C1: the greedy loop terminates; it takes a step only while some example
\* is not done and the step counter is below max_dec_len, it returns only
\* when every example is done or the counter equals max_dec_len, and it
\* never takes more than max_dec_len decoder steps.
C1_GreedyTerminates ==
    /\ [](max_len <= max_dec_len)
    /\ [][max_len' # max_len =>
            /\ max_len' = max_len + 1
            /\ ~AllDone
            /\ max_len < max_dec_len]_vars
    /\ [](pc = "returned" => (AllDone \/ max_len = max_dec_len))
    /\ ((pc = "loop") ~> (pc = "returned"))
C1_Witness ==
    /\ pc = "returned"
    /\ batch_size = 2
    /\ AllDone
    /\ 0 < max_len
    /\ max_len < max_dec_len

\* C2: at every point of greedy decoding and in the returned result, the
\* length of each example's emitted sequence is at most the number of
\* decoder steps taken, which is at most max_dec_len.
C2_LengthBounded ==
    /\ \A i \in Examples : Len(output_seqs[i]) <= max_len
    /\ max_len <= max_dec_len
    /\ pc = "returned" =>
          /\ Len(result) = batch_size
          /\ \A i \in Examples : Len(result[i]) <= max_len
C2_Witness ==
    /\ pc = "returned"
    /\ batch_size = 2
    /\ Len(result[1]) = max_dec_len
    /\ Len(result[2]) < max_dec_len
    /\ max_dec_len >= 2

\* C3: the first step whose arg-max is EOS marks the example done without
\* appending EOS; a done example stays done and its accumulator is never
\* modified again, whatever later steps predict for it; no accumulator and
\* no returned sequence holds EOS, and total_done counts the done flags.
C3_EndFreezes ==
    /\ [](\A i \in Examples :
             /\ done[i] <=> (EOS_ID \in Range(tape[i]))
             /\ EOS_ID \notin Range(output_seqs[i])
             /\ output_seqs[i] = BeforeEOS(tape[i]))
    /\ [](total_done = Cardinality({i \in Examples : done[i]}))
    /\ [](pc = "returned" =>
             \A i \in Examples : EOS_ID \notin Range(result[i]))
    /\ [][\A i \in Examples :
             done[i] => (done'[i] /\ output_seqs'[i] = output_seqs[i])]_vars
C3_Witness ==
    /\ pc = "returned"
    /\ batch_size = 2
    /\ done[1] /\ ~done[2]
    /\ max_len >= Len(output_seqs[1]) + 2
    /\ Len(result[1]) = 1

\* C4: an example that never predicts EOS within max_dec_len steps does not
\* stop predict from returning, and its output is exactly its first
\* max_dec_len predicted symbols in step order.
C4_CapReturnsAccumulated ==
    /\ (pc = "loop" /\ max_len = max_dec_len) => ENABLED PredictReturn
    /\ pc = "returned" =>
          \A i \in Examples :
              EOS_ID \notin Range(tape[i]) =>
                  /\ Len(tape[i]) = max_dec_len
                  /\ result[i] = tape[i]
C4_Witness ==
    /\ pc = "returned"
    /\ batch_size = 2
    /\ max_dec_len = MaxDecLen
    /\ EOS_ID \notin Range(tape[1])
    /\ EOS_ID \in Range(tape[2])
    /\ Len(result[1]) = max_dec_len

\* C5: batch invariance.  The decoder's predictions for an example being a
\* function of that example alone, the sequence returned for example i by
\* predict on the batch equals the one predict returns on the batch holding
\* only example i.
C5_BatchInvariance ==
    pc = "returned" =>
        \A i \in Examples : result[i] = SoloPredict(tape[i])
C5_Witness ==
    /\ pc = "returned"
    /\ batch_size = 2
    /\ done[1] /\ done[2]
    /\ Len(result[1]) + 2 <= Len(result[2])


\* C6: with beam width 1 the prediction entry point returns exactly the
\* sequences greedy decoding returns on the same inputs and model, for every
\* batch size from 0 on.
C6_BeamOneEqualsGreedy ==
    /\ \A i \in Examples :
          /\ Len(beam[i]) = 1
          /\ beam_done[i] = done[i]
          /\ StripControl(beam[i][1]) = output_seqs[i]
    /\ pc = "loop" => beam_steps = max_len
    /\ pc = "returned" => beam_result = result
C6_Witness ==
    /\ pc = "returned"
    /\ batch_size = 2
    /\ beam_result = result
    /\ beam_done[1] /\ ~beam_done[2]
    /\ Len(beam_result[1]) = 1
    /\ Len(beam_result[2]) = max_dec_len
    /\ beam[1][1].score # beam[2][1].score


-----------------------------------------------------------------------------
\* The vocabulary

InitVocab ==
    /\ pc = "new"
    /\ data \in SeqsUpTo(DataSymbols, MaxData)
    /\ id2unit = <<>>
    /\ unit2id = <<>>
    /\ map_in = <<>>
    /\ map_out = <<>>
    /\ unmap_out = <<>>
    /\ max_dec_len = 0
    /\ IdleDecode
    /\ IdleBeam
    /\ IdleBatch
    /\ IdleRest
NextVocab ==
    \/ BuildVocab /\ UNCHANGED <<decodeVars, beamVars, batchVars, restVars>>
    \/ \E units \in SeqsUpTo(DataSymbols \cup {UnseenSymbol, EOS}, MaxMapLen) :
          VocabMap(units) /\ UNCHANGED <<decodeVars, beamVars, batchVars, restVars>>
    \/ VocabUnmap /\ UNCHANGED <<decodeVars, beamVars, batchVars, restVars>>
SpecVocab == InitVocab /\ [][NextVocab]_vars

Built == pc \in {"built", "mapped", "unmapped"}

\* C9: after build_vocab the control symbols PAD, UNK, SOS, EOS, FILL have
\* ids 0..4, the id-to-symbol list has no duplicates, the two mappings are
\* mutually inverse, every data symbol has an id >= 5, and the data symbols
\* are listed in order of descending frequency.
C9_VocabWellFormed ==
    Built =>
        /\ \A k \in 1 .. 5 : id2unit[k] = VOCAB_PREFIX[k]
        /\ unit2id[PAD] = PAD_ID /\ unit2id[UNK] = UNK_ID
        /\ unit2id[SOS] = SOS_ID /\ unit2id[EOS] = EOS_ID
        /\ unit2id[FILL] = FILL_ID
        /\ \A j, k \in 1 .. Len(id2unit) : id2unit[j] = id2unit[k] => j = k
        /\ DOMAIN unit2id = Range(VOCAB_PREFIX) \cup Range(data)
        /\ \A k \in 1 .. Len(id2unit) : unit2id[id2unit[k]] = k - 1
        /\ \A w \in DOMAIN unit2id : id2unit[unit2id[w] + 1] = w
        /\ \A w \in Range(data) : unit2id[w] >= 5
        /\ \A j, k \in 6 .. Len(id2unit) :
              j < k => Count(data, id2unit[j]) >= Count(data, id2unit[k])
C9_Witness ==
    /\ pc = "built"
    /\ Len(id2unit) = 8
    /\ Count(data, id2unit[6]) = 2
    /\ Count(data, id2unit[7]) = 1
    /\ data[1] = id2unit[7]

\* C10: the round trip unmap(map(s)) gives back every symbol of s that is in
\* the vocabulary (so all of s when all its symbols are); a symbol that is
\* not maps to the id of UNK, and unmap gives the UNK placeholder for it.
C10_RoundTrip ==
    /\ pc \in {"mapped", "unmapped"} =>
          /\ Len(map_out) = Len(map_in)
          /\ \A k \in 1 .. Len(map_in) :
                map_in[k] \notin Range(id2unit) => map_out[k] = UNK_ID
    /\ pc = "unmapped" =>
          /\ Len(unmap_out) = Len(map_in)
          /\ \A k \in 1 .. Len(map_in) :
                IF map_in[k] \in Range(id2unit)
                THEN unmap_out[k] = map_in[k]
                ELSE unmap_out[k] = UNK /\ unmap_out[k] # map_in[k]
          /\ Range(map_in) \subseteq Range(id2unit) => unmap_out = map_in
C10_Witness ==
    /\ pc = "unmapped"
    /\ Len(map_in) = 2
    /\ map_in[1] \in Range(data)
    /\ map_in[2] \notin Range(id2unit)
    /\ unmap_out = <<map_in[1], UNK>>
    /\ Len(id2unit) >= 7


-----------------------------------------------------------------------------
\* Batching and the restoration of the caller's order

InitBatch ==
    /\ pc = "raw"
    /\ raw_batch \in SeqsUpTo(AdHocInputs, MaxBatch)
    /\ src = <<>>
    /\ src_mask = <<>>
    /\ lem = <<>>
    /\ lem_mask = <<>>
    /\ orig_idx = <<>>
    /\ model_preds = <<>>
    /\ pred_tokens = <<>>
    /\ max_dec_len = 0
    /\ IdleDecode
    /\ IdleBeam
    /\ IdleVocab
    /\ IdleRest
NextBatch ==
    \/ ProcessBatch /\ UNCHANGED <<decodeVars, beamVars, vocabVars, restVars>>
    \/ TrainerVbPredict /\ UNCHANGED <<decodeVars, beamVars, vocabVars, restVars>>
SpecBatch == InitBatch /\ [][NextBatch]_vars

\* A padded row without its padding
Unpad(row) == SelectSeq(row, LAMBDA x : x # PAD_ID)

\* C7: the predictions returned are in the caller's order.  The rows are
\* sorted by descending source length; unsort with orig_idx takes the rows
\* back to the raw batch (restore(sort(x)) = x); and the token returned at
\* position i is the one decoded from the model's prediction for a row that
\* holds example i, each row being used for exactly one position.
C7_OrderRestored ==
    /\ pc \in {"batched", "predicted"} =>
          /\ \A j, k \in 1 .. Len(src) :
                j < k => Len(Unpad(src[j])) >= Len(Unpad(src[k]))
          /\ Unsort([k \in 1 .. Len(src) |->
                        [src_input |-> Unpad(src[k]),
                         lemma_input |-> Unpad(lem[k])]], orig_idx) = raw_batch
    /\ pc = "predicted" =>
          /\ Len(pred_tokens) = Len(raw_batch)
          /\ \E q \in Perms(Len(raw_batch)) :
                \A i \in 1 .. Len(raw_batch) :
                    /\ Unpad(src[q[i]]) = raw_batch[i].src_input
                    /\ Unpad(lem[q[i]]) = raw_batch[i].lemma_input
                    /\ pred_tokens[i] =
                          PruneDecoded(Unmap(ModelId2Unit, model_preds[q[i]]))
C7_Witness ==
    /\ pc = "predicted"
    /\ Len(raw_batch) = 2
    /\ orig_idx = <<1, 0>>
    /\ Len(raw_batch[1].src_input) < Len(raw_batch[2].src_input)
    /\ pred_tokens = <<<<"a">>, <<"b", "a">>>>

\* C8: an empty batch is accepted; batch construction returns an empty
\* batch for it and does not raise.
C8_EmptyBatchAccepted ==
    (raw_batch = <<>> /\ pc # "raw") => (pc # "error" /\ src = <<>>)


-----------------------------------------------------------------------------
\* Preprocessing of one token: DataLoaderVb._preprocess (data.py 503-545),
\* DataLoaderCombined.preprocess (data.py 141-187) and
\* VbTokenAnalysis.processed_lemma_candidates (vabamorf_pipeline.py 39-41)

MaxTokenLen == 2
MaxCands == 2

\* A string is the sequence of its characters.  Characters in their order.
Alphabet == <<"a", "b", "z">>
Ord(c) == CHOOSE i \in 1 .. Len(Alphabet) : Alphabet[i] = c

\* s < t on strings, as Python compares them
RECURSIVE StrLess(_, _)
StrLess(s, t) ==
    IF s = <<>> THEN t # <<>>
    ELSE IF t = <<>> THEN FALSE
    ELSE IF Head(s) = Head(t) THEN StrLess(Tail(s), Tail(t))
    ELSE Ord(Head(s)) < Ord(Head(t))

\* sorted(list(S)) for a set of strings
RECURSIVE SortedStrings(_)
SortedStrings(S) ==
    IF S = {} THEN <<>>
    ELSE LET m == CHOOSE x \in S : \A y \in S \ {x} : StrLess(x, y)
         IN  <<m>> \o SortedStrings(S \ {m})

\* "".join(strings)
RECURSIVE Join(_)
Join(strings) ==
    IF strings = <<>> THEN <<>> ELSE Head(strings) \o Join(Tail(strings))

\* list(dict.fromkeys(lem)): the distinct elements in first-occurrence order
DictFromKeys(l) == CounterKeys(l)

\* "".join(sorted(list(set(self.lemma_candidates))))
ProcessedLemmaCandidatesAsGiven(cands) == Join(cands)
ProcessedLemmaCandidates(cands) == Join(SortedStrings(Range(cands)))

\* The vocabulary the loader maps with, and the symbols it does not know
PrepUnit2Id == BuildUnit2Id(BuildId2Unit(<<"a", "b", "POS=V", "f", "g", "_">>))

\* 'POS=' + part_of_speech
PosSymbol(p) == IF p = "V" THEN "POS=V" ELSE "POS=N"
\* features.split('|')
SplitFeats(f) == IF f = "f|g" THEN <<"f", "g">> ELSE <<f>>

TokenStrings == SeqsUpTo({"a", "z"}, MaxTokenLen) \ {<<>>}
CandStrings == {<<"a">>, <<"a", "b">>, <<"b">>}
Elements ==
    [token : TokenStrings, part_of_speech : {"V", "N"}, features : {"_", "f|g"},
     lemma_candidates : SeqsUpTo(CandStrings, MaxCands)]
Configs ==
    [loader : {"vb"}, eos_after : BOOLEAN, pos : BOOLEAN, morph : BOOLEAN,
     use_vb_lemmas : BOOLEAN, use_conll_features : BOOLEAN,
     split_feats : BOOLEAN]
    \cup [loader : {"combined"}, eos_after : BOOLEAN, pos : BOOLEAN,
          morph : BOOLEAN, lemmatizer : BOOLEAN]

\* The source symbols: SOS, the characters, then END either directly after
\* the characters or after the POS and feature symbols
SrcSymbolsAlwaysEOS(token, part_of_speech, feats, cfg) ==
    LET s0 == <<SOS>> \o token \o <<EOS>>
        s1 == IF cfg.pos THEN s0 \o part_of_speech ELSE s0
        s2 == IF cfg.morph THEN s1 \o feats ELSE s1
    IN  IF cfg.eos_after THEN s2 \o <<EOS>> ELSE s2
SrcSymbols(token, part_of_speech, feats, cfg) ==
    LET s0 == IF cfg.eos_after THEN <<SOS>> \o token
              ELSE <<SOS>> \o token \o <<EOS>>
        s1 == IF cfg.pos THEN s0 \o part_of_speech ELSE s0
        s2 == IF cfg.morph THEN s1 \o feats ELSE s1
    IN  IF cfg.eos_after THEN s2 \o <<EOS>> ELSE s2

\* DataLoaderVb._preprocess for one element
VbFeats(el, cfg) ==
    IF cfg.use_conll_features THEN SplitFeats(el.features) ELSE <<el.features>>
VbLemmaSymbols(el, cfg) ==
    IF ~cfg.use_vb_lemmas THEN <<SOS, EOS>>
    ELSE <<SOS>> \o ProcessedLemmaCandidates(el.lemma_candidates) \o <<EOS>>
VbPreprocess ==
    /\ pc = "element"
    /\ config.loader = "vb"
    /\ IF ~config.use_conll_features /\ config.split_feats
       THEN /\ pc' = "not_implemented"
            /\ UNCHANGED processed
       ELSE /\ processed' =
                 [src_input |->
                      Map(PrepUnit2Id,
                          SrcSymbols(element.token,
                                     <<PosSymbol(element.part_of_speech)>>,
                                     VbFeats(element, config), config)),
                  lemma_input |->
                      Map(PrepUnit2Id, VbLemmaSymbols(element, config))]
            /\ pc' = "preprocessed"
    /\ UNCHANGED <<element, config, adhoc_processed>>

\* prepare_batch (adhoc.py 125-164) for the same element, with eos_after,
\* use_pos, use_feats the loader's switches and skip_lemma = not use_vb_lemmas
AdHocSrcSymbols(el, cfg) ==
    SrcSymbols(el.token, <<el.part_of_speech>>, <<el.features>>, cfg)
AdHocLemmaSymbols(el, cfg) ==
    IF ~cfg.use_vb_lemmas THEN <<SOS, EOS>>
    ELSE <<SOS>> \o ProcessedLemmaCandidates(el.lemma_candidates) \o <<EOS>>
PrepareBatch ==
    /\ pc = "preprocessed"
    /\ config.loader = "vb"
    /\ adhoc_processed' =
          [src_input |-> Map(PrepUnit2Id, AdHocSrcSymbols(element, config)),
           lemma_input |-> Map(PrepUnit2Id, AdHocLemmaSymbols(element, config))]
    /\ pc' = "both_encoded"
    /\ UNCHANGED <<element, config, processed>>

\* DataLoaderCombined.preprocess for one row d; the lemmatizer returns the
\* candidates, which are deduplicated in order, joined and split to characters
CombinedLemmaSymbols(el, cfg) ==
    IF ~cfg.lemmatizer THEN <<SOS, EOS>>
    ELSE <<SOS>> \o Join(DictFromKeys(el.lemma_candidates)) \o <<EOS>>
CombinedPreprocess ==
    /\ pc = "element"
    /\ config.loader = "combined"
    /\ processed' =
          [src_input |->
               Map(PrepUnit2Id,
                   SrcSymbols(element.token,
                              <<PosSymbol(element.part_of_speech)>>,
                              SplitFeats(element.features), config)),
           lemma_input |->
               Map(PrepUnit2Id, CombinedLemmaSymbols(element, config))]
    /\ pc' = "preprocessed"
    /\ UNCHANGED <<element, config, adhoc_processed>>

InitPrep ==
    /\ pc = "element"
    /\ element \in Elements
    /\ config \in Configs
    /\ processed = <<>>
    /\ adhoc_processed = <<>>
    /\ max_dec_len = 0
    /\ IdleDecode
    /\ IdleBeam
    /\ IdleMore
    /\ IdleVocab
    /\ IdleBatch
    /\ IdleForward
    /\ IdleAttn
    /\ IdleCtor
    /\ IdlePost
    /\ IdleDict
NextPrep ==
    \/ VbPreprocess
          /\ UNCHANGED <<moreVars, decodeVars, beamVars, vocabVars, batchVars, fwdVars,
                       attnVars, ctorVars, postVars, dictVars>>
    \/ CombinedPreprocess
          /\ UNCHANGED <<moreVars, decodeVars, beamVars, vocabVars, batchVars, fwdVars,
                       attnVars, ctorVars, postVars, dictVars>>
    \/ PrepareBatch
          /\ UNCHANGED <<moreVars, decodeVars, beamVars, vocabVars, batchVars, fwdVars,
                       attnVars, ctorVars, postVars, dictVars>>
SpecPrep == InitPrep /\ [][NextPrep]_vars

CountOf(s, x) == Cardinality({k \in 1 .. Len(s) : s[k] = x})
\* Number of POS and feature symbols the configuration appends
SuffixLen(el, cfg) ==
    (IF cfg.pos THEN 1 ELSE 0)
    + (IF ~cfg.morph THEN 0
       ELSE IF cfg.loader = "vb" /\ ~cfg.use_conll_features THEN 1
       ELSE Len(SplitFeats(el.features)))

C28_AdHocAgreesWithLoader ==
    pc = "both_encoded" =>
        /\ adhoc_processed.src_input = processed.src_input
        /\ adhoc_processed.lemma_input = processed.lemma_input

\* C13: the lexicon input string depends only on the set of candidates: it
\* is the concatenation of the distinct candidates in sorted order, and
\* any other sequence of the same candidates gives the same string.
C13_CandidatesAsSet ==
    (pc = "preprocessed" /\ config.loader = "vb" /\ config.use_vb_lemmas) =>
        LET c == element.lemma_candidates
            str == ProcessedLemmaCandidates(c)
        IN  /\ processed.lemma_input =
                  Map(PrepUnit2Id, <<SOS>> \o str \o <<EOS>>)
            /\ \E srt \in SeqsUpTo(Range(c), Cardinality(Range(c))) :
                  /\ Range(srt) = Range(c)
                  /\ \A j, k \in 1 .. Len(srt) : j < k => StrLess(srt[j], srt[k])
                  /\ str = Join(srt)
            /\ \A other \in SeqsUpTo(CandStrings, MaxCands + 1) :
                  Range(other) = Range(c)
                      => ProcessedLemmaCandidates(other) = str
C13_Witness ==
    /\ pc = "preprocessed"
    /\ config.loader = "vb"
    /\ config.use_vb_lemmas
    /\ element.lemma_candidates = <<<<"b">>, <<"a", "b">>>>
    /\ processed.lemma_input = <<SOS_ID, 5, 6, 6, EOS_ID>>

-----------------------------------------------------------------------------
\* Seq2SeqModel.forward (seq2seq_model.py 296-385) and Seq2SeqModel.predict
\* (387-418) up to the encoders, called through TrainerVb.update and
\* TrainerVb.predict on a batch built by process_batch / __getitem__

\* Encoded inputs of the examples of a batch
FwdInputs ==
    {[src_input |-> <<SOS_ID>> \o w \o <<EOS_ID>>,
      lemma_input |-> <<SOS_ID>> \o c \o <<EOS_ID>>] :
        w \in {<<5>>, <<5, 6>>}, c \in {<<>>, <<5>>, <<5, 6>>}}

\* lexicon_dropout in percent, and the values uniform_() may draw from [0, 1)
DropoutRates == {0, 50, 100}
Draws == {0, 49, 50, 99}

Repeat(x, n) == [j \in 1 .. n |-> x]

\* [SOS_ID, EOS_ID] + [PAD_ID] * (lem.size(1) - 2)
LemStump(w) == <<SOS_ID, EOS_ID>> \o Repeat(PAD_ID, w - 2)
\* [0] * 3 + [1] * (lem.size(1) - 3); a negative repeat count gives []
LemMaskStump(w) == Repeat(FALSE, 3) \o Repeat(TRUE, IF w > 3 THEN w - 3 ELSE 0)

\* torch.sum(torch.eq(mask, 0), dim=1)
MaskLens(mask) ==
    [k \in 1 .. Len(mask) |->
        Cardinality({j \in 1 .. Len(mask[k]) : ~mask[k][j]})]
\* mask.narrow(1, 0, n)
Narrow(mask, n) == [k \in 1 .. Len(mask) |-> SubSeq(mask[k], 1, n)]

\* The lexicon part of forward.  lem_hide is one draw for the whole batch
\* (torch.tensor(lem.size(0)) is a scalar), so the stump replaces every row.
\* The mask stump is three positions wide at least: on a batch of width 2
\* the assignment to lem_mask cannot broadcast and raises.
ForwardLexicon(hide) ==
    LET w == Len(lem[1])
        n == Len(lem)
    IN  /\ lem_hide' = hide
        /\ IF hide /\ Len(LemMaskStump(w)) # w
           THEN /\ lem' = Repeat(LemStump(w), n)
                /\ pc' = "shape_error"
                /\ UNCHANGED <<lem_mask, lem_lens, dec_lem_mask>>
           ELSE /\ lem' = IF hide THEN Repeat(LemStump(w), n) ELSE lem
                /\ lem_mask' = IF hide THEN Repeat(LemMaskStump(w), n)
                               ELSE lem_mask
                /\ lem_lens' = MaskLens(lem_mask')
                /\ dec_lem_mask' =
                      LET m == MaxOf(Range(lem_lens'))
                      IN  IF Len(lem_mask'[1]) # m THEN Narrow(lem_mask', m)
                          ELSE lem_mask'
                /\ pc' = "forwarded"

\* TrainerVb.update(batch, evaluate): sets the mode and calls the model
TrainerVbUpdate(evaluate) ==
    /\ pc = "batched"
    /\ training' = ~evaluate
    /\ \E u \in Draws :
          ForwardLexicon(is_lexicon /\ lexicon_dropout > 0 /\ u < lexicon_dropout)
    /\ UNCHANGED <<is_lexicon, lexicon_dropout, raw_batch, src, src_mask,
                   orig_idx, model_preds, pred_tokens>>

\* TrainerVb.predict: model.eval(), then Seq2SeqModel.predict encodes the
\* batch as it is given
PredictEncode ==
    /\ pc = "batched"
    /\ training' = FALSE
    /\ lem_lens' = MaskLens(lem_mask)
    /\ dec_lem_mask' = lem_mask
    /\ pc' = "predict_encoded"
    /\ UNCHANGED <<is_lexicon, lexicon_dropout, lem_hide, batchVars>>

InitForward ==
    /\ pc = "raw"
    /\ raw_batch \in SeqsUpTo(FwdInputs, MaxBatch)
    /\ src = <<>>
    /\ src_mask = <<>>
    /\ lem = <<>>
    /\ lem_mask = <<>>
    /\ orig_idx = <<>>
    /\ model_preds = <<>>
    /\ pred_tokens = <<>>
    /\ training = TRUE
    /\ is_lexicon \in BOOLEAN
    /\ lexicon_dropout \in DropoutRates
    /\ lem_hide = FALSE
    /\ lem_lens = <<>>
    /\ dec_lem_mask = <<>>
    /\ max_dec_len = 0
    /\ IdleDecode
    /\ IdleBeam
    /\ IdleMore
    /\ IdleVocab
    /\ IdlePrep
    /\ IdleAttn
    /\ IdleCtor
    /\ IdlePost
    /\ IdleDict
NextForward ==
    \/ ProcessBatch /\ UNCHANGED <<decodeVars, beamVars, vocabVars, restVars>>
    \/ \E evaluate \in BOOLEAN :
          TrainerVbUpdate(evaluate)
             /\ UNCHANGED <<moreVars, decodeVars, beamVars, vocabVars, prepVars, attnVars,
                          ctorVars, postVars, dictVars>>
    \/ PredictEncode /\ UNCHANGED <<moreVars, decodeVars, beamVars, vocabVars, prepVars, attnVars,
                          ctorVars, postVars, dictVars>>
SpecForward == InitForward /\ [][NextForward]_vars

Encoded == pc \in {"forwarded", "predict_encoded"}

\* C12: on every batch that reaches the encoders, the padding mask is true
\* at exactly the positions that hold PAD, and the true length derived from
\* the mask is the number of non-PAD symbols, also after a lexicon-dropout
\* substitution.
C12_MaskMarksPad ==
    Encoded =>
        /\ src_mask = EqPad(src)
        /\ lem_mask = EqPad(lem)
        /\ \A k \in 1 .. Len(lem) : lem_lens[k] = Len(Unpad(lem[k]))

\* C14: lexicon hiding happens at training time only: in evaluation mode
\* the lexicon input and its mask reach the encoder as the batch gave them.
C14_HidingOnlyInTraining ==
    (~training /\ pc \in {"forwarded", "predict_encoded", "shape_error"}) =>
        /\ ~lem_hide
        /\ lem_mask = EqPad(lem)
        /\ \A k \in 1 .. Len(lem) :
              Unpad(lem[k]) = raw_batch[orig_idx[k] + 1].lemma_input

\* C15: a lexicon input of START, END and padding only is processed
\* without a shape or index error for every lexicon batch width >= 2.
C15_DegenerateLexiconOK ==
    pc # "shape_error"

\* C17: a mismatch between a mask's shape and the encoder context's shape
\* is fatal: the model never truncates or re-pads a mask to make the shapes
\* agree, so the mask handed to the attention step, where the size
\* assertion raises on a mismatch, is the mask of the batch.
C17_NoSilentTruncation ==
    Encoded => dec_lem_mask = lem_mask

\* Row k of the lexicon input as the batch gave it, and what has become of it
GivenLemma(k) == raw_batch[orig_idx[k] + 1].lemma_input
HasCandidates(k) == Len(GivenLemma(k)) > 2
RowKept(k) == Unpad(lem[k]) = GivenLemma(k) /\ lem_mask[k] = EqPad(lem)[k]
RowHidden(k) == lem[k] = LemStump(Len(lem[k]))

\* A training step of TrainerVb.update, as a step of the whole state
TrainStep ==
    /\ TrainerVbUpdate(FALSE)
    /\ UNCHANGED <<moreVars, decodeVars, beamVars, vocabVars, prepVars, attnVars,
                   ctorVars, postVars, dictVars>>

\* C22: lexicon dropout is decided per example: in a training batch of two
\* or more examples with 0 < lexicon_dropout < 1, a forward pass that hides
\* one example while another example of the batch keeps its candidates is
\* possible, and after a training pass every row is either the stub or the
\* row the batch gave.
C22_DropoutPerExample ==
    /\ (/\ pc = "batched"
        /\ is_lexicon
        /\ 0 < lexicon_dropout
        /\ lexicon_dropout < 100
        /\ \E i, j \in 1 .. Len(lem) :
              i # j /\ HasCandidates(i) /\ HasCandidates(j)) =>
          ENABLED (/\ TrainStep
                   /\ \E i, j \in 1 .. Len(lem') :
                         /\ HasCandidates(i)
                         /\ HasCandidates(j)
                         /\ lem'[i] = LemStump(Len(lem'[i]))
                         /\ lem'[j] = lem[j]
                         /\ lem_mask'[j] = lem_mask[j])
    /\ (pc = "forwarded" /\ training) =>
          \A k \in 1 .. Len(lem) : RowHidden(k) \/ RowKept(k)

-----------------------------------------------------------------------------
\* SoftDotAttention.forward (seq2seq_modules.py 39-58), for one row

MaxCtx == 3

\* A logit is inf * 1e12 + fin: -INFINITY_NUMBER is one unit of inf below 0,
\* and the logits the network computes are small
FinScores == {-1, 0, 2}
Logit(x) == [inf |-> 0, fin |-> x]
INFINITY_NUMBER == [inf |-> 1, fin |-> 0]
Neg(a) == [inf |-> 0 - a.inf, fin |-> 0 - a.fin]
LogitLeq(a, b) == a.inf < b.inf \/ (a.inf = b.inf /\ a.fin <= b.fin)

\* attn.masked_fill(mask, -constant.INFINITY_NUMBER)
MaskedFillZero(a, mask) ==
    [j \in 1 .. Len(a) |-> IF mask[j] THEN Logit(0) ELSE a[j]]
MaskedFill(a, mask) ==
    [j \in 1 .. Len(a) |-> IF mask[j] THEN Neg(INFINITY_NUMBER) ELSE a[j]]

\* exp(a - m) in fixed point, for a <= m: positive and increasing on the
\* small logits, and 0 (underflow) when a is 1e12 below m
ExpShift == 3
ExpDiff(a, m) ==
    IF a.inf < m.inf THEN 0 ELSE 2 ^ (a.fin - m.fin + ExpShift)

\* nn.Softmax(dim=1): exp(a - max) over the sum of these
Softmax(a) ==
    LET m == CHOOSE x \in Range(a) : \A y \in Range(a) : LogitLeq(y, x)
        e == [j \in 1 .. Len(a) |-> ExpDiff(a[j], m)]
    IN  [num |-> e, den |-> SumSeq(e)]

\* The attention step: the logits are masked, after the assertion that the
\* mask has the size of the logits, and normalised
SoftDotAttention ==
    /\ pc = "attn"
    /\ IF Len(attn_mask) # Len(attn)
       THEN /\ pc' = "assert_error"
            /\ UNCHANGED attn_weights
       ELSE /\ attn_weights' = Softmax(MaskedFill(attn, attn_mask))
            /\ pc' = "attended"
    /\ UNCHANGED <<attn, attn_mask>>

\* The masks of a row: content (at least START and END), then padding
PaddingMasks ==
    UNION {{Repeat(FALSE, k) \o Repeat(TRUE, n - k) : k \in 2 .. n} :
              n \in 2 .. MaxCtx}

InitAttn ==
    /\ pc = "attn"
    /\ attn \in UNION {[1 .. n -> {Logit(x) : x \in FinScores}] : n \in 2 .. MaxCtx}
    /\ attn_mask \in PaddingMasks
    /\ attn_weights = <<>>
    /\ max_dec_len = 0
    /\ IdleDecode
    /\ IdleBeam
    /\ IdleMore
    /\ IdleVocab
    /\ IdleBatch
    /\ IdlePrep
    /\ IdleForward
    /\ IdleCtor
    /\ IdlePost
    /\ IdleDict
NextAttn ==
    SoftDotAttention
       /\ UNCHANGED <<moreVars, decodeVars, beamVars, vocabVars, batchVars, prepVars,
                      fwdVars, ctorVars, postVars, dictVars>>
SpecAttn == InitAttn /\ [][NextAttn]_vars

\* C16: with a padding mask, the attention weights over the non-padding
\* positions sum to 1 and the weight on every padding position is exactly 0.
C16_AttentionNormalised ==
    pc = "attended" =>
        /\ attn_weights.den > 0
        /\ \A j \in 1 .. Len(attn) :
              /\ attn_mask[j] => attn_weights.num[j] = 0
              /\ ~attn_mask[j] => attn_weights.num[j] > 0
        /\ SumSeq([j \in 1 .. Len(attn) |->
                      IF attn_mask[j] THEN 0 ELSE attn_weights.num[j]])
              = attn_weights.den
C16_Witness ==
    /\ pc = "attended"
    /\ attn_mask = <<FALSE, FALSE, TRUE>>
    /\ attn[3] = Logit(2)
    /\ attn_weights.num[1] < attn_weights.num[2]
    /\ attn_weights.num[3] = 0

-----------------------------------------------------------------------------
\* Seq2SeqModel.__init__ (seq2seq_model.py 126-149)

\* The keys read with args[...], in the order they are read, and the keys
\* read with args.get(..., default)
RequiredKeys ==
    <<"vocab_size", "emb_dim", "hidden_dim", "num_layers", "dropout",
      "lexicon_dropout", "max_dec_len", "log_attn">>
OptionalKeys == {"emb_dropout", "lemmatizer", "top"}
ShapeKeys == {"vocab_size", "emb_dim", "hidden_dim"}

\* A number m * 10^e
Sci(m, e) == [mantissa |-> m, exp10 |-> e]

\* The values a configuration gives to its keys; "lemmatizer" may be
\* given as None
ArgValue(k, lemmatizer) ==
    CASE k = "lemmatizer" -> lemmatizer
      [] k = "top" -> Sci(5, 0)
      [] k = "emb_dropout" -> 50
      [] OTHER -> 2
ArgsOver(K) ==
    {[k \in K |-> ArgValue(k, l)] : l \in {"None", "lexicon"}}

\* args[k]: the value, or KeyError when the key is absent
KeyError == -1
ArgOrZero(a, k) == IF k \in DOMAIN a THEN a[k] ELSE 0
Arg(a, k) == IF k \in DOMAIN a THEN a[k] ELSE KeyError
\* args.get(k, default)
Get(a, k, default) == IF k \in DOMAIN a THEN a[k] ELSE default

\* The constructor: the first absent required key raises and no model is
\* built; the optional keys fall back to their defaults
ModelInit ==
    /\ pc = "args"
    /\ LET read == [j \in 1 .. Len(RequiredKeys) |-> Arg(args, RequiredKeys[j])]
       IN  IF \E j \in 1 .. Len(read) : read[j] = KeyError
           THEN /\ pc' = "key_error"
                /\ UNCHANGED model
           ELSE /\ model' =
                     [vocab_size |-> read[1],
                      emb_dim |-> read[2],
                      hidden_dim |-> read[3],
                      nlayers |-> read[4],
                      emb_dropout |-> Get(args, "emb_dropout", 0),
                      dropout |-> read[5],
                      is_lexicon |-> Get(args, "lemmatizer", "None") # "None",
                      lexicon_dropout |-> read[6],
                      pad_token |-> PAD_ID,
                      max_dec_len |-> read[7],
                      top |-> Get(args, "top", Sci(1, 10)),
                      log_attn |-> read[8]]
                /\ pc' = "constructed"
    /\ UNCHANGED args

InitCtor ==
    /\ pc = "args"
    /\ args \in UNION {ArgsOver(K) : K \in SUBSET (Range(RequiredKeys) \cup OptionalKeys)}
    /\ model = <<>>
    /\ max_dec_len = 0
    /\ IdleDecode
    /\ IdleBeam
    /\ IdleMore
    /\ IdleVocab
    /\ IdleBatch
    /\ IdlePrep
    /\ IdleForward
    /\ IdleAttn
    /\ IdlePost
    /\ IdleDict
NextCtor ==
    ModelInit
       /\ UNCHANGED <<moreVars, decodeVars, beamVars, vocabVars, batchVars, prepVars,
                      fwdVars, attnVars, postVars, dictVars>>
SpecCtor == InitCtor /\ [][NextCtor]_vars

\* C18: a configuration that lacks vocab_size, emb_dim or hidden_dim gives
\* an error and no model; a model that is built has the configured shape
\* scalars, and emb_dropout, top and lemmatizer fall back to their defaults
\* when absent.
C18_ShapeScalarsRequired ==
    /\ (pc # "args" /\ ~(ShapeKeys \subseteq DOMAIN args)) =>
          (pc = "key_error" /\ model = <<>>)
    /\ pc = "constructed" =>
          /\ \A k \in ShapeKeys : model[k] = args[k]
          /\ "emb_dropout" \notin DOMAIN args => model.emb_dropout = 0
          /\ "top" \notin DOMAIN args => model.top = Sci(1, 10)
          /\ "lemmatizer" \notin DOMAIN args => ~model.is_lexicon
C18_Witness ==
    /\ pc = "key_error"
    /\ DOMAIN args = (Range(RequiredKeys) \cup OptionalKeys) \ {"hidden_dim"}

-----------------------------------------------------------------------------
\* Trainer.postprocess (trainer.py 114-133), TrainerVb.postprocess (424-434)
\* and edit_word (edit.py 18-30)

MaxWords == 2

\* word.lower(), a string being the sequence of its characters
LowerChar(c) == IF c = "A" THEN "a" ELSE c
Lower(w) == [j \in 1 .. Len(w) |-> LowerChar(w[j])]

WordForms == {<<"a">>, <<"A", "b">>}
\* Joined predictions; an unknown id unmaps to the UNK placeholder
PredStrings == {<<>>, <<"a">>, <<"b", UNK>>}
\* --num_edit, the number of classes the edit classifier scores, is a
\* command-line argument; EDIT_TO_ID names three classes
NumEditClasses == 4
EditIds == 0 .. (NumEditClasses - 1)
NotImplementedError == <<"NotImplementedError">>

\* edit_word(word, pred, edit_id); the result NotImplementedError stands for
\* the raise of line 28
EditWordDefaultPred(word, pred, edit_id) ==
    IF edit_id = 1 THEN word
    ELSE IF edit_id = 2 THEN Lower(word)
    ELSE pred
EditWord(word, pred, edit_id) ==
    IF edit_id = 1 THEN word
    ELSE IF edit_id = 2 THEN Lower(word)
    ELSE IF edit_id = 0 THEN pred
    ELSE NotImplementedError

\* The final check: an empty lemma or one that holds UNK falls back to the word
FallBackOnEmptyOnly(lemma, w) == IF Len(lemma) = 0 THEN w ELSE lemma
FallBack(lemma, w) ==
    IF Len(lemma) = 0 \/ UNK \in Range(lemma) THEN w ELSE lemma

\* Trainer.postprocess(words, preds, edits)
TrainerPostprocess ==
    /\ pc = "post"
    /\ IF Len(words) # Len(lemma_preds) \/ (edit_on /\ Len(words) # Len(edits))
       THEN /\ pc' = "assert_error"
            /\ UNCHANGED <<edited, final>>
       ELSE LET ed == IF edit_on
                      THEN [i \in 1 .. Len(words) |->
                               EditWord(words[i], lemma_preds[i], edits[i])]
                      ELSE lemma_preds
            IN  IF \E i \in 1 .. Len(ed) : ed[i] = NotImplementedError
                THEN /\ pc' = "not_implemented"
                     /\ UNCHANGED <<edited, final>>
                ELSE /\ edited' = ed
                     /\ final' = [i \in 1 .. Len(words) |->
                                     FallBack(ed[i], words[i])]
                     /\ pc' = "post_done"
    /\ UNCHANGED <<words, lemma_preds, edits, edit_on>>

\* TrainerVb.postprocess(words, preds)
TrainerVbPostprocess ==
    /\ pc = "post"
    /\ ~edit_on
    /\ IF Len(words) # Len(lemma_preds)
       THEN /\ pc' = "runtime_error"
            /\ UNCHANGED final
       ELSE /\ final' = [i \in 1 .. Len(words) |-> FallBack(lemma_preds[i], words[i])]
            /\ pc' = "post_done"
    /\ UNCHANGED <<words, lemma_preds, edits, edit_on, edited>>

InitPost ==
    /\ pc = "post"
    /\ words \in SeqsUpTo(WordForms, MaxWords)
    /\ lemma_preds \in SeqsUpTo(PredStrings, MaxWords)
    /\ edit_on \in BOOLEAN
    /\ edits \in IF edit_on THEN SeqsUpTo(EditIds, MaxWords) ELSE {<<>>}
    /\ edited = <<>>
    /\ final = <<>>
    /\ max_dec_len = 0
    /\ IdleDecode
    /\ IdleBeam
    /\ IdleMore
    /\ IdleVocab
    /\ IdleBatch
    /\ IdlePrep
    /\ IdleForward
    /\ IdleAttn
    /\ IdleCtor
    /\ IdleDict
NextPost ==
    \/ TrainerPostprocess
          /\ UNCHANGED <<moreVars, decodeVars, beamVars, vocabVars, batchVars, prepVars,
                         fwdVars, attnVars, ctorVars, dictVars>>
    \/ TrainerVbPostprocess
          /\ UNCHANGED <<moreVars, decodeVars, beamVars, vocabVars, batchVars, prepVars,
                         fwdVars, attnVars, ctorVars, dictVars>>
SpecPost == InitPost /\ [][NextPost]_vars

\* C19: postprocess returns one lemma per word, in order: the word form
\* when the predicted (or edited) lemma is empty or holds the UNK
\* placeholder, the lemma otherwise; when the number of predictions differs
\* from the number of words it raises and returns nothing.
C19_PostprocessFallsBack ==
    /\ pc = "post_done" =>
          /\ Len(final) = Len(words)
          /\ Len(lemma_preds) = Len(words)
          /\ \A i \in 1 .. Len(words) :
                LET lemma == IF ~edit_on \/ edits[i] = 0 THEN lemma_preds[i]
                             ELSE IF edits[i] = 1 THEN words[i]
                             ELSE Lower(words[i])
                IN  /\ (lemma = <<>> \/ \E j \in 1 .. Len(lemma) : lemma[j] = UNK)
                          => final[i] = words[i]
                    /\ (lemma # <<>> /\ \A j \in 1 .. Len(lemma) : lemma[j] # UNK)
                          => final[i] = lemma
    /\ (pc # "post" /\ Len(lemma_preds) # Len(words)) =>
          (pc \in {"assert_error", "runtime_error"} /\ final = <<>>)
C19_Witness ==
    /\ pc = "post_done"
    /\ words = <<<<"A", "b">>, <<"a">>>>
    /\ lemma_preds = <<<<"b", UNK>>, <<"a">>>>
    /\ final = <<<<"A", "b">>, <<"a">>>>
    /\ ~edit_on

\* C21: edit_word maps the edit class onto the output: class 1 (identity)
\* gives the word unchanged, class 2 (lower) the lower-cased word, class 0
\* (none) the seq2seq prediction; any other class id raises and nothing is
\* returned.
C21_EditWordByClass ==
    /\ (pc = "post_done" /\ edit_on) =>
          /\ Len(edited) = Len(words)
          /\ \A i \in 1 .. Len(words) :
                /\ edits[i] \in {0, 1, 2}
                /\ edits[i] = 1 => edited[i] = words[i]
                /\ edits[i] = 2 => edited[i] = Lower(words[i])
                /\ edits[i] = 0 => edited[i] = lemma_preds[i]
    /\ (/\ pc # "post"
        /\ edit_on
        /\ Len(words) = Len(lemma_preds)
        /\ Len(words) = Len(edits)
        /\ \E i \in 1 .. Len(edits) : edits[i] \notin {0, 1, 2}) =>
          (pc = "not_implemented" /\ edited = <<>> /\ final = <<>>)
C21_Witness ==
    /\ pc = "post_done"
    /\ edit_on
    /\ words = <<<<"A", "b">>, <<"A", "b">>>>
    /\ lemma_preds = <<<<"a">>, <<"b", UNK>>>>
    /\ edits = <<2, 0>>
    /\ edited = <<<<"a", "b">>, <<"b", UNK>>>>

-----------------------------------------------------------------------------
\* The dictionary lemmatizer: Trainer.train_dict (trainer.py 138-150),
\* predict_dict (152-166) and ensemble (182-194)

MaxTriples == 3

\* (word, pos, lemma) triples of the training data
Triples ==
    {<<"w1", "N", "l1">>, <<"w1", "N", "l2">>, <<"w1", "V", "l1">>,
     <<"w1", "V", "l2">>, <<"w2", "N", "l1">>}
\* (word, pos) pairs to lemmatize; w3 is in no dictionary
WordPosPairs == {<<"w1", "N">>, <<"w1", "V">>, <<"w2", "V">>, <<"w3", "N">>}
ModelLemmas == {"m1", "m2"}

\* Put(d, k, v): d[k] = v for a key that d does not hold
Put(d, k, v) == [x \in DOMAIN d \cup {k} |-> IF x = k THEN v ELSE d[x]]
EmptyDict == [x \in {} |-> x]

\* The loop of train_dict over ctr.most_common(): the first triple of a
\* (word, pos) and of a word sets the entry
RECURSIVE TrainComposite(_, _)
TrainComposite(d, ordered) ==
    IF ordered = <<>> THEN d
    ELSE LET p == Head(ordered)
         IN  TrainComposite(IF <<p[1], p[2]>> \in DOMAIN d THEN d
                            ELSE Put(d, <<p[1], p[2]>>, p[3]), Tail(ordered))
RECURSIVE TrainWord(_, _)
TrainWord(d, ordered) ==
    IF ordered = <<>> THEN d
    ELSE LET p == Head(ordered)
         IN  TrainWord(IF p[1] \in DOMAIN d THEN d ELSE Put(d, p[1], p[3]),
                       Tail(ordered))

\* ctr.most_common(): by descending count, ties in first-occurrence order
MostCommon(triples) == SortedByCount(CounterKeys(triples), triples)

TrainDict ==
    /\ pc = "dict_new"
    /\ \E triples \in SeqsUpTo(Triples, MaxTriples) :
          /\ composite_dict' = TrainComposite(composite_dict, MostCommon(triples))
          /\ word_dict' = TrainWord(word_dict, MostCommon(triples))
    /\ pc' = "dict_trained"
    /\ UNCHANGED <<pairs, other_preds, lemmas, skip>>

\* The lookup shared by ensemble and predict_dict: the composite key, then
\* the word, then the fallback
LookupWordFirst(cd, wd, p, fallback) ==
    IF p[1] \in DOMAIN wd THEN wd[p[1]]
    ELSE IF p \in DOMAIN cd THEN cd[p]
    ELSE fallback
Lookup(cd, wd, p, fallback) ==
    IF p \in DOMAIN cd THEN cd[p]
    ELSE IF p[1] \in DOMAIN wd THEN wd[p[1]]
    ELSE fallback

Ensemble(ps, others) ==
    /\ pc = "dict_trained"
    /\ pairs' = ps
    /\ other_preds' = others
    /\ IF Len(ps) # Len(others)
       THEN /\ pc' = "assert_error"
            /\ UNCHANGED lemmas
       ELSE /\ lemmas' = [i \in 1 .. Len(ps) |->
                             Lookup(composite_dict, word_dict, ps[i], others[i])]
            /\ pc' = "ensembled"
    /\ UNCHANGED <<composite_dict, word_dict, skip>>

\* skip_seq2seq(pairs), called on the pairs ensemble was called on
CanSkipCompositeOnly(cd, wd, p) == p \in DOMAIN cd
CanSkip(cd, wd, p) ==
    IF p \in DOMAIN cd THEN TRUE
    ELSE IF p[1] \in DOMAIN wd THEN TRUE
    ELSE FALSE
SkipSeq2seq ==
    /\ pc = "ensembled"
    /\ skip' = [i \in 1 .. Len(pairs) |->
                   CanSkip(composite_dict, word_dict, pairs[i])]
    /\ pc' = "skip_known"
    /\ UNCHANGED <<composite_dict, word_dict, pairs, other_preds, lemmas>>

PredictDict(ps, ignore_empty) ==
    /\ pc = "dict_trained"
    /\ pairs' = ps
    /\ lemmas' = [i \in 1 .. Len(ps) |->
                     Lookup(composite_dict, word_dict, ps[i],
                            IF ignore_empty THEN "" ELSE ps[i][1])]
    /\ pc' = IF ignore_empty THEN "dict_predicted_ignore_empty"
             ELSE "dict_predicted"
    /\ UNCHANGED <<composite_dict, word_dict, other_preds, skip>>

InitDict ==
    /\ pc = "dict_new"
    /\ composite_dict = EmptyDict
    /\ word_dict = EmptyDict
    /\ pairs = <<>>
    /\ other_preds = <<>>
    /\ lemmas = <<>>
    /\ skip = <<>>
    /\ max_dec_len = 0
    /\ IdleDecode
    /\ IdleBeam
    /\ IdleMore
    /\ IdleVocab
    /\ IdleBatch
    /\ IdlePrep
    /\ IdleForward
    /\ IdleAttn
    /\ IdleCtor
    /\ IdlePost
NextDict ==
    \/ TrainDict
          /\ UNCHANGED <<moreVars, decodeVars, beamVars, vocabVars, batchVars, prepVars,
                         fwdVars, attnVars, ctorVars, postVars>>
    \/ \E ps \in SeqsUpTo(WordPosPairs, MaxWords),
          others \in SeqsUpTo(ModelLemmas, MaxWords) :
          Ensemble(ps, others)
             /\ UNCHANGED <<moreVars, decodeVars, beamVars, vocabVars, batchVars, prepVars,
                            fwdVars, attnVars, ctorVars, postVars>>
    \/ \E ps \in SeqsUpTo(WordPosPairs, MaxWords), ignore_empty \in BOOLEAN :
          PredictDict(ps, ignore_empty)
             /\ UNCHANGED <<moreVars, decodeVars, beamVars, vocabVars, batchVars, prepVars,
                            fwdVars, attnVars, ctorVars, postVars>>
    \/ SkipSeq2seq
          /\ UNCHANGED <<moreVars, decodeVars, beamVars, vocabVars, batchVars, prepVars,
                         fwdVars, attnVars, ctorVars, postVars>>
SpecDict == InitDict /\ [][NextDict]_vars

\* The lemma the claim names for a pair: composite entry, else word entry,
\* else the given fallback
Expected(p, fallback) ==
    IF p \in DOMAIN composite_dict THEN composite_dict[p]
    ELSE IF p[1] \in DOMAIN word_dict THEN word_dict[p[1]]
    ELSE fallback

\* C20: ensemble returns one lemma per pair, in order: the composite
\* dictionary's lemma when (word, POS) is a key, else the word dictionary's
\* when the word is a key, else the model prediction at that position;
\* predict_dict looks up in the same order and falls back to the word, or
\* to the empty string with ignore_empty.  Neither changes a dictionary.
C20_EnsembleLookupOrder ==
    /\ [](pc = "ensembled" =>
            /\ Len(lemmas) = Len(pairs)
            /\ \A i \in 1 .. Len(pairs) :
                  lemmas[i] = Expected(pairs[i], other_preds[i]))
    /\ [](pc = "dict_predicted" =>
            /\ Len(lemmas) = Len(pairs)
            /\ \A i \in 1 .. Len(pairs) :
                  lemmas[i] = Expected(pairs[i], pairs[i][1]))
    /\ [](pc = "dict_predicted_ignore_empty" =>
            /\ Len(lemmas) = Len(pairs)
            /\ \A i \in 1 .. Len(pairs) : lemmas[i] = Expected(pairs[i], ""))
    /\ [][pc = "dict_trained" =>
            (composite_dict' = composite_dict /\ word_dict' = word_dict)]_vars
C20_Witness ==
    /\ pc = "ensembled"
    /\ pairs = <<<<"w1", "V">>, <<"w3", "N">>>>
    /\ DOMAIN composite_dict = {<<"w1", "N">>}
    /\ DOMAIN word_dict = {"w1"}
    /\ word_dict["w1"] = "l2"
    /\ lemmas = <<"l2", "m1">>

\* C25: skip_seq2seq agrees with ensemble: on the same pairs and the same
\* dictionaries, skip[i] is true exactly when ensemble took lemma i from a
\* dictionary; the model prediction of a skipped pair is not used and that
\* of a pair that is not skipped is the lemma returned.
C25_SkipAgreesWithEnsemble ==
    pc = "skip_known" =>
        /\ Len(skip) = Len(pairs)
        /\ \A i \in 1 .. Len(pairs) :
              /\ skip[i] <=> (\/ pairs[i] \in DOMAIN composite_dict
                              \/ pairs[i][1] \in DOMAIN word_dict)
              /\ skip[i] =>
                    /\ lemmas[i] # other_preds[i]
                    /\ lemmas[i] \in {composite_dict[k] : k \in DOMAIN composite_dict}
                                       \cup {word_dict[w] : w \in DOMAIN word_dict}
              /\ ~skip[i] => lemmas[i] = other_preds[i]
C25_Witness ==
    /\ pc = "skip_known"
    /\ pairs = <<<<"w1", "V">>, <<"w3", "N">>>>
    /\ DOMAIN composite_dict = {<<"w1", "N">>}
    /\ skip = <<TRUE, FALSE>>
    /\ lemmas[2] = other_preds[2]

\* The number of triples (word, POS, l) and of triples (w, _, l) in the data
PairLemmaCount(triples, wp, l) ==
    Cardinality({k \in 1 .. Len(triples) : triples[k] = <<wp[1], wp[2], l>>})
WordLemmaCount(triples, w, l) ==
    Cardinality({k \in 1 .. Len(triples) :
                    triples[k][1] = w /\ triples[k][3] = l})
TrainLemmas(triples) == {t[3] : t \in Range(triples)}
\* The dictionaries after the first k triples of the loop
CompositeAfter(triples, k) ==
    TrainComposite(EmptyDict, SubSeq(MostCommon(triples), 1, k))
WordAfter(triples, k) ==
    TrainWord(EmptyDict, SubSeq(MostCommon(triples), 1, k))
\* train_dict(triples) on empty dictionaries has given the dictionaries
TrainedOn(triples) ==
    /\ composite_dict = TrainComposite(EmptyDict, MostCommon(triples))
    /\ word_dict = TrainWord(EmptyDict, MostCommon(triples))

\* C24: after train_dict(triples) on empty dictionaries, composite_dict
\* maps every (word, POS) of the triples to a lemma of highest count among
\* the triples with that (word, POS), and word_dict maps every word to a
\* lemma of highest count among all triples with that word; an entry
\* written during the loop is never overwritten, and every word of a
\* composite_dict key is a word_dict key.
C24_DictMostFrequent ==
    pc = "dict_trained" =>
      \A triples \in SeqsUpTo(Triples, MaxTriples) :
        TrainedOn(triples) =>
          /\ DOMAIN composite_dict = {<<t[1], t[2]>> : t \in Range(triples)}
          /\ DOMAIN word_dict = {t[1] : t \in Range(triples)}
          /\ \A wp \in DOMAIN composite_dict :
                \A l \in TrainLemmas(triples) :
                   PairLemmaCount(triples, wp, l)
                      <= PairLemmaCount(triples, wp, composite_dict[wp])
          /\ \A w \in DOMAIN word_dict :
                \A l \in TrainLemmas(triples) :
                   WordLemmaCount(triples, w, l)
                      <= WordLemmaCount(triples, w, word_dict[w])
          /\ \A k \in 0 .. Len(MostCommon(triples)) :
                /\ \A wp \in DOMAIN CompositeAfter(triples, k) :
                      CompositeAfter(triples, k)[wp] = composite_dict[wp]
                /\ \A w \in DOMAIN WordAfter(triples, k) :
                      WordAfter(triples, k)[w] = word_dict[w]
          /\ \A wp \in DOMAIN composite_dict : wp[1] \in DOMAIN word_dict

-----------------------------------------------------------------------------
\* The training-data lexicon: Lexicon.init_lexicon (lexicon.py 32-41) and
\* Lexicon.lemmatize (43-50), built without a Unimorph file (unimorph=False)

\* (word, pos, lemma) entries; a lemma is the sequence of its characters
LexEntries ==
    {<<"w1", "N", <<"x">>>>, <<"w1", "V", <<"x">>>>, <<"w1", "N", <<"y", "z">>>>,
     <<"w2", "N", <<"x">>>>}
LexQueries == {<<"w1", "N">>, <<"w1", "A">>, <<"w2", "N">>, <<"w3", "N">>}

\* d[k] += v on a defaultdict(str)
Concat(d, k, v) ==
    IF k \in DOMAIN d THEN [d EXCEPT ![k] = @ \o v] ELSE Put(d, k, v)

\* The loop over ctr.most_common() (35-38)
RECURSIVE FillPos(_, _)
FillPos(d, ordered) ==
    IF ordered = <<>> THEN d
    ELSE LET e == Head(ordered)
         IN  FillPos(Concat(d, <<e[1], e[2]>>, e[3]), Tail(ordered))
RECURSIVE FillWord(_, _)
FillWord(d, ordered) ==
    IF ordered = <<>> THEN d
    ELSE LET e == Head(ordered)
         IN  FillWord(Concat(d, e[1], e[3]), Tail(ordered))

\* init_lexicon(data)
InitLexicon ==
    /\ pc = "lex_new"
    /\ pos_lexicon' = FillPos(EmptyDict, MostCommon(lex_data))
    /\ word_lexicon' = FillWord(EmptyDict, MostCommon(lex_data))
    /\ pc' = "lex_ready"
    /\ UNCHANGED <<lex_data, use_pos, use_word, lex_query, lex_out>>

\* lemmatize(word, pos)
Lemmatize(word, pos) ==
    /\ pc = "lex_ready"
    /\ lex_query' = <<word, pos>>
    /\ lex_out' = IF <<word, pos>> \in DOMAIN pos_lexicon /\ use_pos
                  THEN pos_lexicon[<<word, pos>>]
                  ELSE IF word \in DOMAIN word_lexicon /\ use_word
                       THEN word_lexicon[word]
                       ELSE <<>>
    /\ pc' = "lex_answered"
    /\ UNCHANGED <<lex_data, use_pos, use_word, pos_lexicon, word_lexicon>>

InitLex ==
    /\ pc = "lex_new"
    /\ lex_data \in SeqsUpTo(LexEntries, MaxTriples)
    /\ use_pos \in BOOLEAN
    /\ use_word \in BOOLEAN
    /\ pos_lexicon = EmptyDict
    /\ word_lexicon = EmptyDict
    /\ lex_query = <<>>
    /\ lex_out = <<>>
    /\ IdleTrain
    /\ IdleEdit
    /\ IdleLoader
    /\ max_dec_len = 0
    /\ IdleDecode
    /\ IdleBeam
    /\ IdleVocab
    /\ IdleBatch
    /\ IdlePrep
    /\ IdleForward
    /\ IdleAttn
    /\ IdleCtor
    /\ IdlePost
    /\ IdleDict
NextLex ==
    \/ InitLexicon
          /\ UNCHANGED <<trainVars, editVars, loaderVars, decodeVars, beamVars, vocabVars, batchVars, prepVars,
                         fwdVars, attnVars, ctorVars, postVars, dictVars>>
    \/ \E q \in LexQueries :
          Lemmatize(q[1], q[2])
             /\ UNCHANGED <<trainVars, editVars, loaderVars, decodeVars, beamVars, vocabVars, batchVars, prepVars,
                            fwdVars, attnVars, ctorVars, postVars, dictVars>>
SpecLex == InitLex /\ [][NextLex]_vars

\* Number of places of the string s where the string sub starts
Occurrences(s, sub) ==
    Cardinality({k \in 1 .. (Len(s) - Len(sub) + 1) :
                    SubSeq(s, k, k + Len(sub) - 1) = sub})
LemmasOfWord(w) == {lex_data[k][3] : k \in {j \in 1 .. Len(lex_data) : lex_data[j][1] = w}}
LemmasOfPair(wp) ==
    {lex_data[k][3] :
        k \in {j \in 1 .. Len(lex_data) : <<lex_data[j][1], lex_data[j][2]>> = wp}}

\* C23: after init_lexicon the candidate string stored for a (word, POS)
\* key and for a word holds each distinct lemma of that key exactly once,
\* and lemmatize never returns the characters of the same lemma twice.
C23_LexiconDeduplicated ==
    pc \in {"lex_ready", "lex_answered"} =>
        /\ \A wp \in DOMAIN pos_lexicon :
              \A l \in LemmasOfPair(wp) : Occurrences(pos_lexicon[wp], l) = 1
        /\ \A w \in DOMAIN word_lexicon :
              \A l \in LemmasOfWord(w) : Occurrences(word_lexicon[w], l) = 1
        /\ pc = "lex_answered" =>
              \A e \in LexEntries : Occurrences(lex_out, e[3]) <= 1

-----------------------------------------------------------------------------
\* The training loop of train (lemmatizer_vb.py 246-331, lemmatizer_cmb.py
\* 182-266): one action per epoch.  The dev score of an epoch is an input;
\* the learning-rate schedule changes nothing the loop control reads.

MaxEpochs == 4
\* Dev scores, in percent
DevScores == {1, 2, 3}
TrainArgs ==
    [num_epoch : 1 .. MaxEpochs, min_epochs : 0 .. 2, early_stop : 0 .. 2]

\* max(dev_score_history): raises ValueError on the empty list
MaxScore(h) == CHOOSE m \in Range(h) : \A x \in Range(h) : x <= m

\* epoch == 1 or dev_score > max(dev_score_history)
IsNewBestOrEqual(e, score, h) == e = 1 \/ score >= MaxScore(h)
IsNewBest(e, score, h) == e = 1 \/ score > MaxScore(h)

\* One pass of the loop body with the dev score of the epoch
TrainEpoch(score) ==
    /\ pc = "train_loop"
    /\ epoch < train_args.num_epoch
    /\ epoch' = epoch + 1
    /\ dev_score' = score
    /\ IF IsNewBest(epoch', score, dev_score_history)
       THEN saved_epoch' = epoch' /\ best_dev_preds' = epoch'
       ELSE UNCHANGED <<saved_epoch, best_dev_preds>>
    /\ IF epoch' > train_args.min_epochs /\ dev_score_history = <<>>
       THEN /\ pc' = "value_error"
            /\ UNCHANGED <<devs_without_improvements, dev_score_history>>
       ELSE /\ devs_without_improvements' =
                  IF epoch' > train_args.min_epochs
                  THEN IF score <= MaxScore(dev_score_history)
                       THEN devs_without_improvements + 1
                       ELSE 0
                  ELSE devs_without_improvements
            /\ IF devs_without_improvements' > train_args.early_stop
               THEN /\ pc' = "train_ended"
                    /\ UNCHANGED dev_score_history
               ELSE /\ dev_score_history' = Append(dev_score_history, score)
                    /\ pc' = "train_loop"
    /\ UNCHANGED train_args

\* range(1, num_epoch + 1) is exhausted
TrainEnd ==
    /\ pc = "train_loop"
    /\ epoch = train_args.num_epoch
    /\ pc' = "train_ended"
    /\ UNCHANGED trainVars

InitTrain ==
    /\ pc = "train_loop"
    /\ train_args \in TrainArgs
    /\ epoch = 0
    /\ dev_score = 0
    /\ dev_score_history = <<>>
    /\ devs_without_improvements = 0
    /\ saved_epoch = 0
    /\ best_dev_preds = 0
    /\ IdleLex
    /\ IdleEdit
    /\ IdleLoader
    /\ max_dec_len = 0
    /\ IdleDecode
    /\ IdleBeam
    /\ IdleVocab
    /\ IdleBatch
    /\ IdlePrep
    /\ IdleForward
    /\ IdleAttn
    /\ IdleCtor
    /\ IdlePost
    /\ IdleDict
NextTrain ==
    \/ \E score \in DevScores :
          TrainEpoch(score)
             /\ UNCHANGED <<lexVars, editVars, loaderVars, decodeVars, beamVars, vocabVars, batchVars,
                            prepVars, fwdVars, attnVars, ctorVars, postVars,
                            dictVars>>
    \/ TrainEnd
          /\ UNCHANGED <<lexVars, editVars, loaderVars, decodeVars, beamVars, vocabVars, batchVars,
                         prepVars, fwdVars, attnVars, ctorVars, postVars,
                         dictVars>>
SpecTrain == InitTrain /\ [][NextTrain]_vars

\* The dev scores of the epochs run so far (the epoch that stops the loop
\* is not appended to the history)
ScoresSeen ==
    IF Len(dev_score_history) = epoch THEN dev_score_history
    ELSE Append(dev_score_history, dev_score)

\* C26: epochs without improvement are counted only for epochs after
\* min_epochs; an epoch whose dev score strictly exceeds the best earlier
\* score resets the count; training stops at the end of the epoch in which
\* the dev score has failed to improve for early_stop epochs; training
\* never runs more than num_epoch epochs.
C26_EarlyStopping ==
    /\ [][devs_without_improvements' # devs_without_improvements =>
            epoch' > train_args.min_epochs]_vars
    /\ [][(/\ epoch' = epoch + 1
           /\ pc' # "value_error"
           /\ epoch' > train_args.min_epochs
           /\ dev_score' > MaxScore(dev_score_history)) =>
            devs_without_improvements' = 0]_vars
    /\ []((pc = "train_loop" /\ train_args.early_stop >= 1) =>
            devs_without_improvements < train_args.early_stop)
    /\ [](epoch <= train_args.num_epoch)

-----------------------------------------------------------------------------
\* The edit class of a training example: get_edit_type (edit.py 8-14), and
\* edit_word applied to the class with the gold lemma as the prediction

EDIT_TO_ID == [none |-> 0, identity |-> 1, lower |-> 2]

GoldStrings == SeqsUpTo({"a", "A", "b"}, MaxTokenLen)

GetEditTypeLowerFirst(word, lemma) ==
    IF lemma = Lower(word) THEN "lower"
    ELSE IF lemma = word THEN "identity"
    ELSE "none"
GetEditType(word, lemma) ==
    IF lemma = word THEN "identity"
    ELSE IF lemma = Lower(word) THEN "lower"
    ELSE "none"

\* edit_type = edit.EDIT_TO_ID[edit.get_edit_type(d[0], d[2])]
ClassifyEdit ==
    /\ pc = "edit_new"
    /\ edit_type' = GetEditType(gold_word, gold_lemma)
    /\ pc' = "edit_typed"
    /\ UNCHANGED <<gold_word, gold_lemma, edit_out>>

\* edit_word(word, lemma, EDIT_TO_ID[edit_type])
ApplyEdit ==
    /\ pc = "edit_typed"
    /\ edit_out' = EditWord(gold_word, gold_lemma, EDIT_TO_ID[edit_type])
    /\ pc' = "edit_done"
    /\ UNCHANGED <<gold_word, gold_lemma, edit_type>>

InitEdit ==
    /\ pc = "edit_new"
    /\ gold_word \in GoldStrings
    /\ gold_lemma \in GoldStrings
    /\ edit_type = ""
    /\ edit_out = <<>>
    /\ IdleLex
    /\ IdleTrain
    /\ IdleLoader
    /\ max_dec_len = 0
    /\ IdleDecode
    /\ IdleBeam
    /\ IdleVocab
    /\ IdleBatch
    /\ IdlePrep
    /\ IdleForward
    /\ IdleAttn
    /\ IdleCtor
    /\ IdlePost
    /\ IdleDict
NextEdit ==
    \/ ClassifyEdit
          /\ UNCHANGED <<lexVars, trainVars, loaderVars, decodeVars, beamVars, vocabVars,
                         batchVars, prepVars, fwdVars, attnVars, ctorVars,
                         postVars, dictVars>>
    \/ ApplyEdit
          /\ UNCHANGED <<lexVars, trainVars, loaderVars, decodeVars, beamVars, vocabVars,
                         batchVars, prepVars, fwdVars, attnVars, ctorVars,
                         postVars, dictVars>>
SpecEdit == InitEdit /\ [][NextEdit]_vars

\* C29: edit round trip: edit_word applied to the class get_edit_type gives
\* for (word, lemma) returns the lemma; the class is identity exactly when
\* lemma = word, lower exactly when lemma # word and lemma = word.lower(),
\* and none otherwise.
C29_EditRoundTrip ==
    /\ pc \in {"edit_typed", "edit_done"} =>
          /\ edit_type = "identity" <=> gold_lemma = gold_word
          /\ edit_type = "lower" <=>
                (gold_lemma # gold_word /\ gold_lemma = Lower(gold_word))
          /\ edit_type = "none" <=>
                (gold_lemma # gold_word /\ gold_lemma # Lower(gold_word))
    /\ pc = "edit_done" => edit_out = gold_lemma
C29_Witness ==
    /\ pc = "edit_done"
    /\ gold_word = <<"A", "b">>
    /\ gold_lemma = <<"a", "b">>
    /\ edit_type = "lower"
    /\ edit_out = <<"a", "b">>

-----------------------------------------------------------------------------
\* DataLoaderVb (data.py 236-595) and evaluate (lemmatizer_vb.py 350-398)

MaxExamples == 4
LoaderTokens == {<<"a">>, <<"b">>, <<"a", "b">>}
LoaderBatchSizes == 1 .. 3
LoaderKeys == -1 .. (MaxExamples + 1)
IndexError == [raised |-> "IndexError"]

\* random.shuffle(indices); data = [data[i] for i in indices], when shuffled
Shuffled(xs, shuffled) ==
    IF shuffled
    THEN {[k \in 1 .. Len(xs) |-> xs[p[k]]] : p \in Perms(Len(xs))}
    ELSE {xs}

\* [data[i:i + batch_size] for i in range(0, len(data), batch_size)]
ChunkFullOnly(xs, n) ==
    [k \in 1 .. (Len(xs) \div n) |->
        SubSeq(xs, (k - 1) * n + 1, k * n)]
Chunk(xs, n) ==
    [k \in 1 .. ((Len(xs) + n - 1) \div n) |->
        SubSeq(xs, (k - 1) * n + 1,
               IF k * n < Len(xs) THEN k * n ELSE Len(xs))]

\* src_input of an example: SOS, the characters of the token, EOS
LoaderSrcLens(batch) == [k \in 1 .. Len(batch) |-> Len(batch[k]) + 2]

\* __getitem__(key): IndexError for a key outside the batches, else the rows
\* of the batch sorted by sort_all together with their original indices
GetItem(xs, key) ==
    IF key < 0 \/ key >= Len(xs)
    THEN {IndexError}
    ELSE LET batch == xs[key + 1]
         IN  {[rows |-> [k \in 1 .. Len(p) |-> batch[p[k]]],
               orig_idx |-> [k \in 1 .. Len(p) |-> p[k] - 1]] :
                 p \in SortPerms(LoaderSrcLens(batch))}

\* The lemma the model predicts for a row depends on that row only
ModelPred(row) == <<"lemma of">> \o row

\* trainer.predict(batch): the predictions of the rows, put back by orig_idx
BatchPreds(b) ==
    Unsort([k \in 1 .. Len(b.rows) |-> ModelPred(b.rows[k])], b.orig_idx)

RECURSIVE FlattenBatches(_)
FlattenBatches(batches) ==
    IF Len(batches) = 0 THEN <<>>
    ELSE Head(batches) \o FlattenBatches(Tail(batches))

\* DataLoaderVb.__init__: shuffle for training, then chunk into batches
DataLoaderVbInit ==
    /\ pc = "loader_new"
    /\ \E d \in Shuffled(flat_analysis, ~evaluation) :
          loader_data' = Chunk(d, loader_batch_size)
    /\ pc' = "loader_ready"
    /\ UNCHANGED <<flat_analysis, loader_batch_size, evaluation, loader_key,
                   loader_batch, eval_i, eval_preds>>

\* dataloader[key]
LoaderGetItem(key) ==
    /\ pc = "loader_ready"
    /\ loader_key' = key
    /\ loader_batch' \in GetItem(loader_data, key)
    /\ UNCHANGED <<pc, flat_analysis, loader_batch_size, evaluation,
                   loader_data, eval_i, eval_preds>>

\* evaluate: skip when len(dataloader) == 0, else start the loop
EvaluateStart ==
    /\ pc = "loader_ready"
    /\ evaluation
    /\ pc' = IF Len(loader_data) = 0 THEN "exit" ELSE "evaluating"
    /\ UNCHANGED loaderVars

\* for i, batch in enumerate(dataloader): preds += trainer.predict(batch)
EvaluateStep ==
    /\ pc = "evaluating"
    /\ eval_i < Len(loader_data)
    /\ \E b \in GetItem(loader_data, eval_i) :
          /\ loader_key' = eval_i
          /\ loader_batch' = b
          /\ eval_preds' = eval_preds \o BatchPreds(b)
    /\ eval_i' = eval_i + 1
    /\ UNCHANGED <<pc, flat_analysis, loader_batch_size, evaluation,
                   loader_data>>

\* the loop of evaluate is over: postprocess and write_to_conll take preds
EvaluateEnd ==
    /\ pc = "evaluating"
    /\ eval_i = Len(loader_data)
    /\ pc' = "evaluated"
    /\ UNCHANGED loaderVars

InitLoader ==
    /\ pc = "loader_new"
    /\ flat_analysis \in SeqsUpTo(LoaderTokens, MaxExamples)
    /\ loader_batch_size \in LoaderBatchSizes
    /\ evaluation \in BOOLEAN
    /\ loader_data = <<>>
    /\ loader_key = 0
    /\ loader_batch = NoBatch
    /\ eval_i = 0
    /\ eval_preds = <<>>
    /\ IdleLex
    /\ IdleTrain
    /\ IdleEdit
    /\ max_dec_len = 0
    /\ IdleDecode
    /\ IdleBeam
    /\ IdleVocab
    /\ IdleBatch
    /\ IdlePrep
    /\ IdleForward
    /\ IdleAttn
    /\ IdleCtor
    /\ IdlePost
    /\ IdleDict
NextLoader ==
    \/ DataLoaderVbInit
          /\ UNCHANGED <<lexVars, trainVars, editVars, decodeVars, beamVars,
                         vocabVars, batchVars, prepVars, fwdVars, attnVars,
                         ctorVars, postVars, dictVars>>
    \/ \E key \in LoaderKeys :
          /\ LoaderGetItem(key)
          /\ UNCHANGED <<lexVars, trainVars, editVars, decodeVars, beamVars,
                         vocabVars, batchVars, prepVars, fwdVars, attnVars,
                         ctorVars, postVars, dictVars>>
    \/ EvaluateStart
          /\ UNCHANGED <<lexVars, trainVars, editVars, decodeVars, beamVars,
                         vocabVars, batchVars, prepVars, fwdVars, attnVars,
                         ctorVars, postVars, dictVars>>
    \/ EvaluateStep
          /\ UNCHANGED <<lexVars, trainVars, editVars, decodeVars, beamVars,
                         vocabVars, batchVars, prepVars, fwdVars, attnVars,
                         ctorVars, postVars, dictVars>>
    \/ EvaluateEnd
          /\ UNCHANGED <<lexVars, trainVars, editVars, decodeVars, beamVars,
                         vocabVars, batchVars, prepVars, fwdVars, attnVars,
                         ctorVars, postVars, dictVars>>
SpecLoader == InitLoader /\ [][NextLoader]_vars

\* C30: in evaluation mode the batches partition the examples in order:
\* concatenated by index they are the input, every batch holds between 1 and
\* batch_size examples and only the last may hold fewer; the predictions of
\* the batches concatenated in batch order line up with the tokens; a key
\* outside 0..len-1 raises IndexError and a key inside does not.
C30_EvalBatchesPartition ==
    /\ (pc \in {"loader_ready", "evaluating", "evaluated", "exit"}
            /\ evaluation) =>
          /\ FlattenBatches(loader_data) = flat_analysis
          /\ \A k \in 1 .. Len(loader_data) :
                /\ Len(loader_data[k]) >= 1
                /\ Len(loader_data[k]) <= loader_batch_size
                /\ k < Len(loader_data) =>
                      Len(loader_data[k]) = loader_batch_size
    /\ pc \in {"evaluating", "evaluated"} =>
          /\ Len(eval_preds) <= Len(flat_analysis)
          /\ \A i \in 1 .. Len(eval_preds) :
                eval_preds[i] = ModelPred(flat_analysis[i])
    /\ pc = "evaluated" => Len(eval_preds) = Len(flat_analysis)
    /\ (pc = "loader_ready" /\ loader_batch # NoBatch) =>
          (loader_batch = IndexError
              <=> loader_key \notin 0 .. (Len(loader_data) - 1))
C30_Witness ==
    /\ pc = "evaluated"
    /\ evaluation
    /\ loader_batch_size = 2
    /\ flat_analysis = <<<<"a">>, <<"a", "b">>, <<"b">>>>
    /\ loader_data = <<<<<<"a">>, <<"a", "b">>>>, <<<<"b">>>>>>
    /\ loader_batch.rows = <<<<"b">>>>
    /\ eval_preds = <<<<"lemma of", "a">>, <<"lemma of", "a", "b">>,
                      <<"lemma of", "b">>>>

=============================================================================
